---- MODULE Spec2Model ----
(***************************************************************************)
(* Verification model of the z-ai-playground examples:                     *)
(*   - the job poller of the video examples (text_to_video.run and its     *)
(*     copies): submit, then query the status on an interval until a       *)
(*     terminal status or the deadline;                                    *)
(*   - the streaming chunk accumulator (create_streaming_chat_with_tools   *)
(*     and its copies), and the order in which its result is displayed;    *)
(*   - the callers' loop over the finalized tool calls of a response;      *)
(*   - the safe expression evaluator (calculate, safe_calculate) and the   *)
(*     callers of the calculator tool;                                     *)
(*   - the four copies of the polling loop run side by side;               *)
(*   - the cached client (get_client);                                     *)
(*   - the conversation of multi_turn_chat (chat, clear);                  *)
(*   - the agent loop (multi_function_agent.run, function_calling.run).    *)
(* Each component has its own specification over the shared variables.    *)
(***************************************************************************)
EXTENDS Integers, Sequences, FiniteSets, TLC

\* ------------------------------------------------------------------------
\* Bounds of the model and program constants
\* ------------------------------------------------------------------------

\* poll_interval is drawn from 0..MaxInterval
MaxInterval == 10

\* max_wait is drawn from 0..MaxWait (and the default)
MaxWait == 25

\* run(..., poll_interval: int = 10, ...)
DefaultPollInterval == 10

\* run(..., max_wait: int = 300)
DefaultMaxWait == 300

\* the ghost counters queries and sleeps saturate here (only a run with
\* poll_interval = 0 gets that far: every other run makes at most
\* max_wait queries)
CounterCap == IF MaxWait > DefaultMaxWait THEN MaxWait + 2 ELSE DefaultMaxWait + 2

PollIntervals == (0..MaxInterval) \cup {DefaultPollInterval}

MaxWaits == (0..MaxWait) \cup {DefaultMaxWait}

\* the job identifiers a submission returns (response.id)
JobIds == {"job1", "job2"}

\* what one status query yields: result.task_status, or the query raising.
\* "PROCESSING" stands for every status that is neither SUCCESS nor FAIL.
TaskStatuses == {"PROCESSING", "SUCCESS", "FAIL"}

QueryRaises == "raise"

\* result.video_result: empty, or entries with url and cover_image_url
VideoResults == {<<>>, <<[url |-> "u1", cover_image_url |-> "c1"]>>,
                 <<[url |-> "u1", cover_image_url |-> "c1"],
                   [url |-> "u2", cover_image_url |-> "c2"]>>}

None == [kind |-> "None"]

\* the copies of the poller: the SDK copy (text_to_video.run; image_to_video
\* and start_end_frame repeat its loop) and the raw-HTTP copy
\* (video_generation.run)
PollImpls == {"sdk", "http"}

VARIABLES
    \* ---- job poller (text_to_video.run, lines 85-132)
    poll_interval,  \* parameter of run
    max_wait,       \* parameter of run
    video_id,       \* response.id of the submission
    elapsed,        \* the local elapsed
    ppc,            \* position in run: "loop", "query", "sleep", "done"
    outcome,        \* "Running", "Completed", "Failed", "TimedOut", "Error"
    ret,            \* the value run returns
    queries,        \* ghost: number of status queries made (saturating)
    sleeps,         \* ghost: number of time.sleep calls made (saturating)
    firstStatus,    \* ghost: what the first status query yielded
    lastStatus,     \* ghost: what the latest status query yielded
    pimpl,          \* which copy of the poller runs, one of PollImpls
    lastVideoResult,\* ghost: the video_result the latest query carried
    \* ---- chunk accumulator (create_streaming_chat_with_tools and copies)
    impl,           \* which copy of the loop runs, one of Impls
    content,        \* the local content (full_content)
    reasoning,      \* the local reasoning (full_reasoning)
    tool_calls,     \* the local tool_calls: index -> entry
    raised,         \* the loop was left by an exception
    apc,            \* "consuming" until the stream ends, then "done"
    nfrags,         \* ghost: number of fragments consumed
    delivered,      \* ghost: per index, what the fragments delivered
    split,          \* second run, fed the same stream with fragments split
    arrived,        \* ghost: the fragments delivered, in arrival order
    \* ---- the callers' loop over the finalized tool calls
    caller,         \* which caller runs, one of Callers
    calls,          \* the finalized tool calls of one response
    cpos,           \* position of the tool call the for loop is at
    executed,       \* ghost: positions whose tool function was executed
    reported,       \* ghost: positions for which a parse error was printed
    cpc,            \* "calls" inside the for loop, then "done" or "aborted"
    \* ---- safe expression evaluator (calculate, safe_calculate)
    eimpl,          \* which copy evaluates, one of EvalImpls
    expr,           \* the expression, as ast.parse reads it
    eout,           \* what the evaluator hands to its caller
    epc,            \* "call" before the evaluation, then "done"
    \* ---- the four copies of the poller, run side by side
    copies,         \* per copy: elapsed, pc, outcome, ret, queries, sleeps
    \* ---- the cached client (client.get_client)
    cache,          \* the globals _client and _search_client, and ghosts
    \* ---- the conversation (multi_turn_chat.Conversation)
    conv,           \* self.messages, and ghosts about the latest call
    \* ---- the agent loop (multi_function_agent.run, function_calling.run)
    agent           \* the locals of run, and ghosts about the requests

pollVars == <<poll_interval, max_wait, video_id, elapsed, ppc, outcome, ret,
              queries, sleeps, firstStatus, lastStatus, pimpl, lastVideoResult>>

accVars == <<impl, content, reasoning, tool_calls, raised, apc, nfrags,
             delivered, split, arrived>>

toolVars == <<caller, calls, cpos, executed, reported, cpc>>

evalVars == <<eimpl, expr, eout, epc>>

auxVars == <<copies, cache, conv, agent>>

vars == <<pollVars, accVars, toolVars, evalVars, auxVars>>

Bump(n) == IF n < CounterCap THEN n + 1 ELSE n

\* ------------------------------------------------------------------------
\* Chunk accumulator: values
\* ------------------------------------------------------------------------

\* a stream holds at most MaxFrags fragments
MaxFrags == 2

\* the tool-call indices of the streams
Indices == {0, 1}

\* An optional text field of a fragment: the key is missing, the value is
\* null (None), or it is a string (a sequence of characters).
Absent == [k |-> "absent", v |-> <<>>]

Null == [k |-> "null", v |-> <<>>]

Str(s) == [k |-> "str", v |-> s]

\* Python truthiness of an optional string
Truthy(x) == x.k = "str" /\ x.v # <<>>

\* x or ""
OrEmpty(x) == IF Truthy(x) THEN x ELSE Str(<<>>)

\* the text an optional string holds
Text(x) == IF x.k = "str" THEN x.v ELSE <<>>

IsPrefix(s, t) == Len(s) <= Len(t) /\ SubSeq(t, 1, Len(s)) = s

\* the empty dict {}
EmptyMap == [i \in {} |-> Null]

\* d[i] = e
Put(d, i, e) == [j \in DOMAIN d \cup {i} |-> IF j = i THEN e ELSE d[j]]

\* the text deltas of the content and reasoning channels
ContentValues == {Absent, Null, Str(<<>>), Str(<<"a">>), Str(<<"a", "b">>)}

\* the argument deltas of a tool call
ArgumentValues == {Null, Str(<<>>), Str(<<"a">>), Str(<<"a", "b">>)}

\* identifier and function name of a tool-call delta
Identities == {<<Null, Null>>, <<Null, Str(<<>>)>>,
               <<Str(<<"x">>), Str(<<"f">>)>>, <<Str(<<"y">>), Str(<<"g">>)>>,
               <<Str(<<"x">>), Null>>, <<Null, Str(<<"f">>)>>}

\* One tool-call delta. function is "obj" or "null" (tc.function is None,
\* "function": null). A missing JSON key reads as "" in the raw-HTTP
\* copy and as None in the SDK objects, so name and arguments range over
\* null and strings.
ToolCallDelta(i, id, fn, name, args) ==
    [index |-> i, id |-> id, function |-> fn, name |-> name, arguments |-> args]

WellFormedDeltas ==
    {ToolCallDelta(i, idn[1], "obj", idn[2], a) :
        i \in Indices, idn \in Identities, a \in ArgumentValues}

NoFunctionDeltas == {ToolCallDelta(i, Null, "null", Null, Null) : i \in Indices}

ToolCallDeltas == WellFormedDeltas \cup NoFunctionDeltas

\* the deltas that share fragments with other deltas
PairedDeltas ==
    {ToolCallDelta(0, Str(<<"x">>), "obj", Str(<<"f">>), Str(<<"a">>)),
     ToolCallDelta(0, Null, "obj", Null, Str(<<"a", "b">>)),
     ToolCallDelta(1, Str(<<"y">>), "obj", Str(<<"g">>), Str(<<"a">>)),
     ToolCallDelta(0, Null, "null", Null, Null)}

List(l) == [k |-> "list", v |-> l]

\* One fragment of the stream: choices is whether chunk.choices is
\* non-empty, delta is "obj" or "null" (choices[0].delta is None).
Fragment(ch, d, c, r, tcs) ==
    [choices |-> ch, delta |-> d, content |-> c, reasoning_content |-> r,
     tool_calls |-> tcs]

EmptyFragment == Fragment(TRUE, "obj", Absent, Absent, Absent)

\* fragments of one text channel, or of both
TextFragments ==
    {Fragment(TRUE, "obj", c, Absent, Absent) : c \in ContentValues}
    \cup {Fragment(TRUE, "obj", Absent, r, Absent) : r \in ContentValues}
    \cup {Fragment(TRUE, "obj", Str(<<"a", "b">>), r, Absent) :
              r \in {Null, Str(<<"a">>)}}

ToolFragments ==
    {Fragment(TRUE, "obj", Absent, Absent, tcs) :
        tcs \in {Null, List(<<>>)}
                \cup {List(<<tc>>) : tc \in ToolCallDeltas}
                \cup {List(<<t1, t2>>) : t1 \in PairedDeltas, t2 \in PairedDeltas}}

MixedFragments ==
    {Fragment(TRUE, "obj", Str(<<"a">>), Str(<<"a", "b">>), List(<<tc>>)) :
        tc \in PairedDeltas}

Fragments ==
    {Fragment(FALSE, "null", Absent, Absent, Absent),
     Fragment(TRUE, "null", Absent, Absent, Absent)}
    \cup TextFragments \cup ToolFragments \cup MixedFragments

\* the copies of the loop:
\*   "sdk"        client.py create_streaming_chat_with_tools
\*   "sdk_demo"   function_calling.py demo_streaming_tool_calls
\*   "sdk_chat"   streaming_chat.py run
\*   "http_run"   chat_completion.py run (stream=True)
\*   "http_tools" chat_completion.py demo_streaming_tool_calls
Impls == {"sdk", "sdk_demo", "sdk_chat", "http_run", "http_tools"}

\* ------------------------------------------------------------------------
\* Chunk accumulator: the loop body
\* ------------------------------------------------------------------------

\* content = "", reasoning = "", tool_calls = {}
EmptyAcc == [content |-> <<>>, reasoning |-> <<>>, tool_calls |-> EmptyMap,
             raised |-> FALSE]

\* an exception leaves the loop; the locals stay as they were
Raise(st) == [st EXCEPT !.raised = TRUE]

\* mutant of AppendText: the new text replaces the old
AppendTextReplaces(old, new) == new

\* mutant of AppendText: deltas are joined with a delimiter
AppendTextDelimited(old, new) == old \o <<" ">> \o new

\* s += delta
AppendText(old, new) == old \o new

\* mutant of IndexOf: every delta goes to entry 0
IndexOfZero(tc) == 0

\* idx = tc.index
IndexOf(tc) == tc.index

\* the entry made for an index not seen before
SdkNewEntry(tc) ==
    [id |-> tc.id, name |-> OrEmpty(tc.name), arguments |-> OrEmpty(tc.arguments)]

\* mutant of SdkUpdateEntry: a later delta's name replaces the entry's
SdkUpdateEntryRenames(e, tc) ==
    [e EXCEPT !.name = IF Truthy(tc.name) THEN tc.name ELSE @,
              !.arguments = IF Truthy(tc.arguments)
                            THEN Str(AppendText(@.v, tc.arguments.v)) ELSE @]

\* the else branch: only truthy arguments are appended
SdkUpdateEntry(e, tc) ==
    IF Truthy(tc.arguments)
    THEN [e EXCEPT !.arguments = Str(AppendText(@.v, tc.arguments.v))]
    ELSE e

\* the body of  for tc in delta.tool_calls  (client.py 180-193);
\* tc.function.name of a None function raises AttributeError
SdkToolCall(st, tc) ==
    IF tc.function = "null" THEN Raise(st)
    ELSE IF IndexOf(tc) \notin DOMAIN st.tool_calls
    THEN [st EXCEPT !.tool_calls = Put(@, IndexOf(tc), SdkNewEntry(tc))]
    ELSE [st EXCEPT !.tool_calls[IndexOf(tc)] = SdkUpdateEntry(@, tc)]

RECURSIVE SdkToolCalls(_, _)
SdkToolCalls(st, tcs) ==
    IF st.raised \/ tcs = <<>> THEN st
    ELSE SdkToolCalls(SdkToolCall(st, Head(tcs)), Tail(tcs))

\* mutant of SdkAppend: a fragment without text for the field clears it
SdkAppendClears(st, field, x) ==
    IF Truthy(x) THEN [st EXCEPT ![field] = AppendText(@, x.v)]
    ELSE [st EXCEPT ![field] = <<>>]

\* if hasattr(delta, field) and delta.field: s += delta.field
SdkAppend(st, field, x) ==
    IF Truthy(x) THEN [st EXCEPT ![field] = AppendText(@, x.v)] ELSE st

\* if hasattr(delta, "tool_calls") and delta.tool_calls: for tc in ...
SdkToolCallList(st, tcs) ==
    IF tcs.k = "list" /\ tcs.v # <<>> THEN SdkToolCalls(st, tcs.v) ELSE st

\* one iteration of  for chunk in response  (client.py 163-193)
SdkChunk(st, f) ==
    IF ~f.choices \/ f.delta = "null" THEN st
    ELSE SdkToolCallList(
             SdkAppend(SdkAppend(st, "reasoning", f.reasoning_content),
                       "content", f.content),
             f.tool_calls)

\* one iteration of the loop of function_calling.demo_streaming_tool_calls
\* (lines 480-509): content and tool calls, no reasoning
SdkDemoChunk(st, f) ==
    IF ~f.choices \/ f.delta = "null" THEN st
    ELSE SdkToolCallList(SdkAppend(st, "content", f.content), f.tool_calls)

\* one iteration of the loop of streaming_chat.run (lines 65-78):
\* reasoning and content, no tool calls
SdkChatChunk(st, f) ==
    IF ~f.choices \/ f.delta = "null" THEN st
    ELSE SdkAppend(SdkAppend(st, "reasoning", f.reasoning_content),
                   "content", f.content)

\* full_content += delta["content"] when the key is present; str + None
\* raises TypeError
HttpAppend(st, field, x) ==
    IF x.k = "absent" THEN st
    ELSE IF x.k = "null" THEN Raise(st)
    ELSE [st EXCEPT ![field] = AppendText(@, x.v)]

\* one data line of chat_completion.run (lines 90-98); "content" in delta
\* of a null delta raises TypeError
HttpRunChunk(st, f) ==
    IF ~f.choices THEN st
    ELSE IF f.delta = "null" THEN Raise(st)
    ELSE LET s1 == HttpAppend(st, "content", f.content)
         IN IF s1.raised THEN s1
            ELSE HttpAppend(s1, "reasoning", f.reasoning_content)

\* the entry made for an index not seen before (chat_completion.py 327-333):
\* .get(key, "") of a key that is present and null is None
HttpNewEntry(tc) == [id |-> tc.id, name |-> tc.name, arguments |-> tc.arguments]

\* the body of  for tc in delta["tool_calls"]  (chat_completion.py 325-341);
\* None.get raises AttributeError, None += str raises TypeError
HttpToolCall(st, tc) ==
    IF tc.function = "null" THEN Raise(st)
    ELSE IF IndexOf(tc) \notin DOMAIN st.tool_calls
    THEN [st EXCEPT !.tool_calls = Put(@, IndexOf(tc), HttpNewEntry(tc))]
    ELSE IF ~Truthy(tc.arguments) THEN st
    ELSE IF st.tool_calls[IndexOf(tc)].arguments.k = "null" THEN Raise(st)
    ELSE [st EXCEPT !.tool_calls[IndexOf(tc)].arguments =
                        Str(AppendText(@.v, tc.arguments.v))]

RECURSIVE HttpToolCalls(_, _)
HttpToolCalls(st, tcs) ==
    IF st.raised \/ tcs = <<>> THEN st
    ELSE HttpToolCalls(HttpToolCall(st, Head(tcs)), Tail(tcs))

\* one data line of chat_completion.demo_streaming_tool_calls (318-341);
\* iterating a null tool_calls raises TypeError
HttpToolsChunk(st, f) ==
    IF ~f.choices THEN st
    ELSE IF f.delta = "null" THEN Raise(st)
    ELSE IF f.tool_calls.k = "absent" THEN st
    ELSE IF f.tool_calls.k = "null" THEN Raise(st)
    ELSE HttpToolCalls(st, f.tool_calls.v)

\* one fragment consumed by the copy im
ConsumeChunk(im, st, f) ==
    IF st.raised THEN st
    ELSE IF im = "sdk" THEN SdkChunk(st, f)
    ELSE IF im = "sdk_demo" THEN SdkDemoChunk(st, f)
    ELSE IF im = "sdk_chat" THEN SdkChatChunk(st, f)
    ELSE IF im = "http_run" THEN HttpRunChunk(st, f)
    ELSE HttpToolsChunk(st, f)

RECURSIVE ConsumeAll(_, _, _)
ConsumeAll(im, st, fs) ==
    IF fs = <<>> THEN st
    ELSE ConsumeAll(im, ConsumeChunk(im, st, Head(fs)), Tail(fs))

\* what the caller gets: the three accumulators, or nothing after a raise
Result(st) == IF st.raised THEN Raise(EmptyAcc) ELSE st

\* the accumulator's locals as one record
Acc == [content |-> content, reasoning |-> reasoning, tool_calls |-> tool_calls,
        raised |-> raised]

\* ------------------------------------------------------------------------
\* Chunk accumulator: what the stream delivered (ghost) and split streams
\* ------------------------------------------------------------------------

\* the fragment has a delta object
HasDelta(f) == f.choices /\ f.delta = "obj"

\* the tool-call deltas a fragment delivers
DeliveredDeltas(f) ==
    IF HasDelta(f) /\ f.tool_calls.k = "list" THEN f.tool_calls.v ELSE <<>>

NothingDelivered == [id |-> Null, name |-> Null, arguments |-> <<>>,
                     lastId |-> Null, lastName |-> Null, n |-> 0]

\* Per index: the first non-empty identifier and name delivered, the
\* latest ones, the argument texts delivered, concatenated in arrival
\* order, and the number of deltas.
NoteDelta(g, tc) ==
    LET old == IF tc.index \in DOMAIN g THEN g[tc.index] ELSE NothingDelivered
        nm == IF tc.function = "obj" THEN tc.name ELSE Null
        ar == IF tc.function = "obj" THEN Text(tc.arguments) ELSE <<>>
    IN Put(g, tc.index,
           [id |-> IF Truthy(old.id) THEN old.id ELSE tc.id,
            name |-> IF Truthy(old.name) THEN old.name ELSE nm,
            arguments |-> old.arguments \o ar,
            lastId |-> IF Truthy(tc.id) THEN tc.id ELSE old.lastId,
            lastName |-> IF Truthy(nm) THEN nm ELSE old.lastName,
            n |-> old.n + 1])

RECURSIVE NoteDeltas(_, _)
NoteDeltas(g, tcs) ==
    IF tcs = <<>> THEN g ELSE NoteDeltas(NoteDelta(g, Head(tcs)), Tail(tcs))

Cut(s, k) == <<SubSeq(s, 1, k), SubSeq(s, k + 1, Len(s))>>

\* f replaced by two fragments: its content delta cut after k characters
SplitContent(f, k) ==
    <<[f EXCEPT !.content = Str(Cut(f.content.v, k)[1])],
      [EmptyFragment EXCEPT !.content = Str(Cut(f.content.v, k)[2])]>>

\* the same for the reasoning delta
SplitReasoning(f, k) ==
    <<[f EXCEPT !.reasoning_content = Str(Cut(f.reasoning_content.v, k)[1])],
      [EmptyFragment EXCEPT
          !.reasoning_content = Str(Cut(f.reasoning_content.v, k)[2])]>>

\* the same for the arguments of the p-th tool-call delta: the first
\* fragment ends with the first part, the second starts with the rest;
\* the second part repeats identifier and name or not (keep)
SplitArguments(f, p, k, keep) ==
    LET l == f.tool_calls.v
        tc == l[p]
        t1 == [tc EXCEPT !.arguments = Str(Cut(tc.arguments.v, k)[1])]
        t2 == [tc EXCEPT !.arguments = Str(Cut(tc.arguments.v, k)[2]),
                         !.id = IF keep THEN @ ELSE Null,
                         !.name = IF keep THEN @ ELSE Null]
    IN <<[f EXCEPT !.tool_calls = List(SubSeq(l, 1, p - 1) \o <<t1>>)],
         [EmptyFragment EXCEPT
             !.tool_calls = List(<<t2>> \o SubSeq(l, p + 1, Len(l)))]>>

\* every way to split one text delta of f
Splits(f) ==
    IF ~HasDelta(f) THEN {}
    ELSE (IF f.content.k = "str"
          THEN {SplitContent(f, k) : k \in 0..Len(f.content.v)} ELSE {})
         \cup
         (IF f.reasoning_content.k = "str"
          THEN {SplitReasoning(f, k) : k \in 0..Len(f.reasoning_content.v)}
          ELSE {})
         \cup
         UNION {IF l_tc[2].function = "obj" /\ l_tc[2].arguments.k = "str"
                THEN {SplitArguments(f, l_tc[1], k, keep) :
                         k \in 0..Len(l_tc[2].arguments.v), keep \in BOOLEAN}
                ELSE {} :
                l_tc \in {<<p, DeliveredDeltas(f)[p]>> :
                             p \in 1..Len(DeliveredDeltas(f))}}

\* both parts of the split carry text
ProperSplit(pair) ==
    \/ Truthy(pair[1].content) /\ Truthy(pair[2].content)
    \/ Truthy(pair[1].reasoning_content) /\ Truthy(pair[2].reasoning_content)
    \/ /\ pair[2].tool_calls.k = "list"
       /\ Truthy(pair[2].tool_calls.v[1].arguments)
       /\ Truthy(pair[1].tool_calls.v[Len(pair[1].tool_calls.v)].arguments)

\* ------------------------------------------------------------------------
\* Chunk accumulator: the loop
\* ------------------------------------------------------------------------

\* Syntax of the expressions the evaluator is given: one record per ast
\* node. node is the node class, op the operator class of a BinOp or
\* UnaryOp and the type of the value of a Constant, value the value of a
\* numeric Constant, kids the operands.
Node(n, o, v, ks) == [node |-> n, op |-> o, value |-> v, kids |-> ks]

\* ast.parse(expression, mode='eval') raises SyntaxError ("import os")
Unparsable == Node("SyntaxError", "", 0, <<>>)

\* nothing returned yet
NoOutcome == [kind |-> "none", exc |-> "", error |-> <<>>, n |-> 0, d |-> 1]

\* the copies of the polling loop:
\*   "text_to_video"    examples/04_video/text_to_video.py run
\*   "image_to_video"   examples/04_video/image_to_video.py run
\*   "start_end_frame"  examples/04_video/start_end_frame.py run
\*   "http"             http_examples/video_generation.py run
Copies == {"text_to_video", "image_to_video", "start_end_frame", "http"}

\* elapsed = 0 before the while loop
CopyStart == [elapsed |-> 0, pc |-> "loop", outcome |-> "Running", ret |-> None,
              queries |-> 0, sleeps |-> 0]

\* _client = None (client.py 21); wrapper instances are numbered from 1
NoClient == 0

\* The module globals before the first call. Ghosts: made counts the
\* wrappers constructed, built those constructed for the cache, defaults and
\* customs are the instances returned by calls without and with arguments,
\* last describes the latest call.
CacheStart ==
    [client |-> NoClient, search |-> NoClient, made |-> 0, built |-> 0,
     ncalls |-> 0, defaults |-> {}, customs |-> {},
     last |-> [custom |-> FALSE, before |-> NoClient, returned |-> NoClient]]

\* {"role": role, "content": content}
Message(role, text) == [role |-> role, content |-> text]

\* a Conversation built with the given messages and no call made yet
ConvStart(msgs) == [messages |-> msgs, before |-> msgs, op |-> "none", ncalls |-> 0]

\* The locals of run before the first request: messages holds the user
\* query. Ghosts: requests counts the create_chat calls, sent is the message
\* list of the latest request, tools whether every response so far asked
\* for tools, ended how run was left.
AgentStart(im, mi) ==
    [impl |-> im, max_iterations |-> mi, iteration |-> 0, pc |-> "loop",
     messages |-> <<[role |-> "user", content |-> "query", tool_calls |-> <<>>,
                     tool_call_id |-> <<0, 0>>]>>,
     sent |-> <<>>, requests |-> 0, tools |-> TRUE, ended |-> "running",
     ret |-> [kind |-> "None", iterations |-> 0]]

AgentIdle == agent = [AgentStart("agent_run", 0) EXCEPT !.pc = "idle"]

CopiesIdle == copies = [c \in Copies |-> CopyStart]

CacheIdle == cache = CacheStart

ConvIdle == conv = ConvStart(<<>>)

AuxIdle ==
    /\ CopiesIdle
    /\ CacheIdle
    /\ ConvIdle
    /\ AgentIdle

ToolIdle ==
    /\ caller = "fc_run"
    /\ calls = <<>>
    /\ cpos = 1
    /\ executed = {}
    /\ reported = {}
    /\ cpc = "idle"

EvalIdle ==
    /\ eimpl = "calculate"
    /\ expr = Unparsable
    /\ eout = NoOutcome
    /\ epc = "idle"

AccIdle ==
    /\ impl = "sdk"
    /\ content = <<>>
    /\ reasoning = <<>>
    /\ tool_calls = EmptyMap
    /\ raised = FALSE
    /\ apc = "idle"
    /\ nfrags = 0
    /\ delivered = EmptyMap
    /\ split = [acc |-> EmptyAcc, proper |-> FALSE]
    /\ arrived = <<>>

PollIdle ==
    /\ poll_interval = DefaultPollInterval
    /\ max_wait = DefaultMaxWait
    /\ video_id = "job1"
    /\ elapsed = 0
    /\ ppc = "idle"
    /\ outcome = "Running"
    /\ ret = None
    /\ queries = 0
    /\ sleeps = 0
    /\ firstStatus = "none"
    /\ lastStatus = "none"
    /\ pimpl = "sdk"
    /\ lastVideoResult = <<>>

\* content = "", reasoning = "", tool_calls = {} before the loop
InitAcc ==
    /\ impl \in Impls
    /\ content = EmptyAcc.content
    /\ reasoning = EmptyAcc.reasoning
    /\ tool_calls = EmptyAcc.tool_calls
    /\ raised = FALSE
    /\ apc = "consuming"
    /\ nfrags = 0
    /\ delivered = EmptyMap
    /\ split = [acc |-> EmptyAcc, proper |-> FALSE]
    /\ arrived = <<>>
    /\ PollIdle
    /\ ToolIdle
    /\ EvalIdle
    /\ AuxIdle

\* the locals after one more iteration of the loop
Step(f) ==
    LET st == ConsumeChunk(impl, Acc, f)
    IN /\ content' = st.content
       /\ reasoning' = st.reasoning
       /\ tool_calls' = st.tool_calls
       /\ raised' = st.raised
       /\ nfrags' = nfrags + 1
       /\ UNCHANGED <<impl, apc>>
       /\ UNCHANGED <<pollVars, toolVars, evalVars, auxVars>>

CanConsume == apc = "consuming" /\ ~raised /\ nfrags < MaxFrags

\* the stream delivers f; the second run gets f too
Consume(f) ==
    /\ CanConsume
    /\ Step(f)
    /\ delivered' = NoteDeltas(delivered, DeliveredDeltas(f))
    /\ split' = [split EXCEPT !.acc = ConsumeChunk(impl, @, f)]
    /\ UNCHANGED arrived

\* the stream delivers f; the second run gets f split in two
ConsumeSplit(f, pair) ==
    /\ CanConsume
    /\ Step(f)
    /\ delivered' = NoteDeltas(delivered, DeliveredDeltas(f))
    /\ split' = [acc |-> ConsumeAll(impl, split.acc, pair),
                 proper |-> split.proper \/ ProperSplit(pair)]
    /\ UNCHANGED arrived

\* the stream ends (the iterator is exhausted, the [DONE] line arrives)
EndOfStream ==
    /\ apc = "consuming"
    /\ ~raised
    /\ apc' = "done"
    /\ UNCHANGED <<impl, content, reasoning, tool_calls, raised, nfrags,
                   delivered, split, arrived>>
    /\ UNCHANGED <<pollVars, toolVars, evalVars, auxVars>>

ConsumeFragment == \E f \in Fragments : Consume(f)

ConsumeSplitFragment == \E f \in Fragments : \E pair \in Splits(f) : ConsumeSplit(f, pair)

NextAcc == ConsumeFragment \/ ConsumeSplitFragment \/ EndOfStream

SpecAcc == InitAcc /\ [][NextAcc]_vars

\* ------------------------------------------------------------------------
\* Chunk accumulator: streams of single tool-call deltas, arrival recorded
\* ------------------------------------------------------------------------

\* a recorded stream holds at most MaxInterleaved fragments
MaxInterleaved == 3

\* identifier, name and arguments of the deltas of the recorded streams
InterleaveShapes ==
    {<<Str(<<"x">>), Str(<<"f">>), Str(<<"a">>)>>,
     <<Str(<<"x">>), Str(<<"f">>), Str(<<>>)>>,
     <<Str(<<"y">>), Str(<<"g">>), Str(<<"a">>)>>,
     <<Null, Null, Str(<<"a">>)>>,
     <<Null, Null, Str(<<"a", "b">>)>>,
     <<Null, Null, Null>>,
     <<Null, Str(<<>>), Str(<<>>)>>,
     <<Str(<<"x">>), Null, Null>>,
     <<Null, Str(<<"f">>), Str(<<"a", "b">>)>>}

InterleaveDeltas ==
    NoFunctionDeltas
    \cup {ToolCallDelta(i, t[1], "obj", t[2], t[3]) :
             i \in Indices, t \in InterleaveShapes}

\* fragments that carry one tool-call delta each
IndexedFragments ==
    {Fragment(TRUE, "obj", Absent, Absent, List(<<tc>>)) : tc \in InterleaveDeltas}

ForIndex0(f) == f.tool_calls.v[1].index = 0

ForIndex1(f) == f.tool_calls.v[1].index = 1

\* the arrived fragments reordered: all of index 0, then all of index 1,
\* each in its arrival order
Sequential(fs) == SelectSeq(fs, ForIndex0) \o SelectSeq(fs, ForIndex1)

InitInterleave ==
    /\ InitAcc
    /\ impl \in {"sdk", "sdk_demo", "http_tools"}

\* the stream delivers a fragment with one tool-call delta
DeliverIndexed(f) ==
    /\ apc = "consuming"
    /\ ~raised
    /\ nfrags < MaxInterleaved
    /\ Step(f)
    /\ arrived' = Append(arrived, f)
    /\ UNCHANGED <<delivered, split>>

DeliverIndexedFragment == \E f \in IndexedFragments : DeliverIndexed(f)

NextInterleave == DeliverIndexedFragment \/ EndOfStream

SpecInterleave == InitInterleave /\ [][NextInterleave]_vars

\* ------------------------------------------------------------------------
\* Job poller
\* ------------------------------------------------------------------------

\* the state once the job is submitted and elapsed = 0 is executed
InitPoll ==
    /\ poll_interval \in PollIntervals
    /\ max_wait \in MaxWaits
    /\ video_id \in JobIds
    /\ elapsed = 0
    /\ ppc = "loop"
    /\ outcome = "Running"
    /\ ret = None
    /\ queries = 0
    /\ sleeps = 0
    /\ firstStatus = "none"
    /\ lastStatus = "none"
    /\ pimpl \in PollImpls
    /\ lastVideoResult = <<>>
    /\ AccIdle
    /\ ToolIdle
    /\ EvalIdle
    /\ AuxIdle

\* mutant of LoopCondition: the deadline test written with <=
LoopConditionLE(e, mw) == e <= mw

\* while elapsed < max_wait
LoopCondition(e, mw) == e < mw

\* mutant of TimeoutReturn: the deadline returns None like a failure
TimeoutReturnNone(id) == None

\* return {"id": video_id, "status": "pending"}
TimeoutReturn(id) == [kind |-> "dict", id |-> id, status |-> "pending"]

\* the while test; on exit the timeout value is returned
LoopTest ==
    /\ ppc = "loop"
    /\ IF LoopCondition(elapsed, max_wait)
       THEN /\ ppc' = "query"
            /\ UNCHANGED <<outcome, ret>>
       ELSE /\ ppc' = "done"
            /\ outcome' = "TimedOut"
            /\ ret' = TimeoutReturn(video_id)
    /\ UNCHANGED <<poll_interval, max_wait, video_id, elapsed, queries, sleeps,
                   firstStatus, lastStatus, pimpl, lastVideoResult>>
    /\ UNCHANGED <<accVars, toolVars, evalVars, auxVars>>

\* mutant of FirstUrl: the URL is taken from the last entry
FirstUrlOfLast(vr) == IF vr # <<>> THEN vr[Len(vr)].url ELSE "None"

\* video_url / cover_url of the success branch
FirstUrl(vr) == IF vr # <<>> THEN vr[1].url ELSE "None"

FirstCover(vr) == IF vr # <<>> THEN vr[1].cover_image_url ELSE "None"

\* mutant of AfterStatus: a query that raises is retried after a sleep
AfterStatusRetries(s) == IF s = "SUCCESS" THEN "Completed"
                         ELSE IF s = "FAIL" THEN "Failed"
                         ELSE "Running"

\* mutant of AfterStatus: a FAIL status is treated as still running
AfterStatusIgnoreFail(s) == IF s = "SUCCESS" THEN "Completed"
                            ELSE IF s = QueryRaises THEN "Error"
                            ELSE "Running"

\* the branch taken on the status a query yields
AfterStatus(s) == IF s = "SUCCESS" THEN "Completed"
                  ELSE IF s = "FAIL" THEN "Failed"
                  ELSE IF s = QueryRaises THEN "Error"
                  ELSE "Running"

\* what the success branch returns: the SDK copy builds a dict from the
\* first entry of video_result (the key prompt is left out), the raw-HTTP
\* copy returns the status response itself
SuccessReturn(im, id, vr) ==
    IF im = "sdk"
    THEN [kind |-> "dict", id |-> id,
          video_url |-> FirstUrl(vr), cover_url |-> FirstCover(vr)]
    ELSE [kind |-> "dict", task_status |-> "SUCCESS", video_result |-> vr]

\* result = client.retrieve_video_result(video_id) and the branches on
\* result.task_status; an exception is caught by the except of run
StatusQuery(s, vr) ==
    /\ ppc = "query"
    /\ queries' = Bump(queries)
    /\ lastStatus' = s
    /\ firstStatus' = IF queries = 0 THEN s ELSE firstStatus
    /\ outcome' = AfterStatus(s)
    /\ ppc' = IF AfterStatus(s) = "Running" THEN "sleep" ELSE "done"
    /\ ret' = IF AfterStatus(s) = "Completed"
              THEN SuccessReturn(pimpl, video_id, vr)
              ELSE None
    /\ lastVideoResult' = vr
    /\ UNCHANGED <<poll_interval, max_wait, video_id, elapsed, sleeps, pimpl>>
    /\ UNCHANGED <<accVars, toolVars, evalVars, auxVars>>

\* mutant of NextElapsed: elapsed is assigned, not accumulated
NextElapsedAssigned(e, pi) == pi

\* elapsed += poll_interval
NextElapsed(e, pi) == e + pi

\* time.sleep(poll_interval); elapsed += poll_interval
Sleep ==
    /\ ppc = "sleep"
    /\ sleeps' = Bump(sleeps)
    /\ elapsed' = NextElapsed(elapsed, poll_interval)
    /\ ppc' = "loop"
    /\ UNCHANGED <<poll_interval, max_wait, video_id, outcome, ret, queries,
                   firstStatus, lastStatus, pimpl, lastVideoResult>>
    /\ UNCHANGED <<accVars, toolVars, evalVars, auxVars>>

Query == \E s \in TaskStatuses \cup {QueryRaises}, vr \in VideoResults :
            /\ (s # "SUCCESS" => vr = <<>>)
            /\ StatusQuery(s, vr)

NextPoll == LoopTest \/ Query \/ Sleep

SpecPoll == InitPoll /\ [][NextPoll]_vars

\* the run is sequential code: whatever step is enabled is taken
SpecPollFair == SpecPoll /\ WF_vars(NextPoll)

\* ------------------------------------------------------------------------
\* Chunk accumulator: properties
\* ------------------------------------------------------------------------

\* the copy accumulates tool calls
ToolImpl == impl \in {"sdk", "sdk_demo", "http_tools"}

ArgumentsInv ==
    (ToolImpl /\ ~raised) =>
        /\ DOMAIN tool_calls = DOMAIN delivered
        /\ \A i \in DOMAIN tool_calls :
              Text(tool_calls[i].arguments) = delivered[i].arguments

ArgumentsStep ==
    \A i \in DOMAIN tool_calls :
        /\ i \in DOMAIN tool_calls'
        /\ IsPrefix(Text(tool_calls[i].arguments), Text(tool_calls'[i].arguments))

\* C1: for each index the accumulated arguments text is the concatenation,
\* in arrival order, of the argument texts delivered for that index, and
\* each step only appends: the previous text is a prefix of the new one.
C1_ArgumentsConcatenated == []ArgumentsInv /\ [][ArgumentsStep]_vars

C1_Witness ==
    /\ impl = "sdk"
    /\ apc = "done"
    /\ \E i \in DOMAIN tool_calls :
          /\ delivered[i].n >= 2
          /\ tool_calls[i].arguments = Str(<<"a", "a", "b">>)

\* C2: fragments for index 0 and index 1 arriving in any interleaving give
\* the same result as all of index 0's fragments followed by all of index
\* 1's fragments.
C2_InterleavingIrrelevant ==
    Result(Acc) = Result(ConsumeAll(impl, EmptyAcc, Sequential(arrived)))

C2_Witness ==
    /\ apc = "done"
    /\ Len(arrived) = 3
    /\ ForIndex0(arrived[1])
    /\ ForIndex1(arrived[2])
    /\ ForIndex0(arrived[3])
    /\ \A i \in Indices : i \in DOMAIN tool_calls /\ Truthy(tool_calls[i].arguments)
    /\ tool_calls[0].arguments = Str(<<"a", "a", "b">>)

\* C3: a stream in which fragments are replaced by two fragments whose text
\* deltas concatenate to the original delta gives the same result.
C3_SplitIrrelevant == Result(Acc) = Result(split.acc)

C3_Witness ==
    /\ split.proper
    /\ apc = "done"
    /\ content # <<>>
    /\ DOMAIN tool_calls # {}

\* C4: when a later delta for an index carries the first non-empty
\* identifier or function name, the entry of that index ends with them.
C4_LateIdentityAdopted ==
    (ToolImpl /\ ~raised) =>
        \A i \in DOMAIN tool_calls :
            /\ Truthy(delivered[i].id) => tool_calls[i].id = delivered[i].id
            /\ Truthy(delivered[i].name) => tool_calls[i].name = delivered[i].name

IdentityStep ==
    \A i \in DOMAIN tool_calls :
        /\ i \in DOMAIN tool_calls'
        /\ Truthy(tool_calls[i].id) => tool_calls'[i].id = tool_calls[i].id
        /\ Truthy(tool_calls[i].name) => tool_calls'[i].name = tool_calls[i].name

\* C5: once an entry's identifier or function name holds a non-empty value,
\* no later fragment changes it.
C5_IdentityFirstWriterWins == [][IdentityStep]_vars

C5_Witness ==
    /\ ~raised
    /\ \E i \in DOMAIN tool_calls :
          /\ Truthy(tool_calls[i].id)
          /\ Truthy(tool_calls[i].name)
          /\ Truthy(delivered[i].lastId)
          /\ Truthy(delivered[i].lastName)
          /\ delivered[i].lastId # tool_calls[i].id
          /\ delivered[i].lastName # tool_calls[i].name

\* C6: consuming a fragment never raises, whatever fields it leaves out or
\* sets to null.
C6_ConsumeNeverFails == ~raised

\* ------------------------------------------------------------------------
\* Job poller: properties
\* ------------------------------------------------------------------------

NonTerminal(s) == s \notin {"SUCCESS", "FAIL", QueryRaises}

CeilDiv(a, b) == (a + b - 1) \div b

DeadlineStateInv ==
    \* every sleep adds poll_interval to elapsed
    /\ elapsed = sleeps * poll_interval
    \* a status query is made only while elapsed < max_wait
    /\ (ppc = "query" => elapsed < max_wait)
    \* TimedOut is returned at the first loop test that finds elapsed >= max_wait
    /\ (outcome = "TimedOut" =>
            /\ ppc = "done"
            /\ elapsed >= max_wait
            /\ queries = sleeps
            /\ (queries > 0 => elapsed - poll_interval < max_wait)
            /\ (queries > 0 => NonTerminal(lastStatus)))
    \* the scenario poll_interval = 10, max_wait = 25
    /\ (outcome = "TimedOut" /\ poll_interval = 10 /\ max_wait = 25 =>
            queries = 3 /\ elapsed = 30)

DeadlineStep ==
    /\ (ppc = "loop" /\ elapsed >= max_wait =>
            outcome' = "TimedOut" /\ queries' = queries /\ sleeps' = sleeps)
    /\ (ppc = "sleep" => ppc' = "loop" /\ elapsed' = elapsed + poll_interval)
    /\ (ppc = "query" /\ NonTerminal(lastStatus') => ppc' = "sleep")

\* C7: while every status is non-terminal the poller polls and sleeps, adds
\* poll_interval to elapsed after each sleep, and returns TimedOut as soon as
\* elapsed >= max_wait, without a further query; with poll_interval = 10 and
\* max_wait = 25 that is after 3 queries with elapsed = 30.
C7_TimedOutAtDeadline == []DeadlineStateInv /\ [][DeadlineStep]_vars

C7_Witness ==
    /\ outcome = "TimedOut"
    /\ poll_interval = 10
    /\ max_wait = 25
    /\ queries = 3
    /\ elapsed = 30

\* C8: every poller run reaches Completed, Failed or TimedOut (or the error
\* return) after finitely many status queries.
C8_PollerTerminates == <>(ppc = "done")

\* C9: with poll_interval >= 1 and max_wait >= 1 a run makes at most
\* ceil(max_wait / poll_interval) status queries.
C9_QueriesBounded ==
    (poll_interval >= 1 /\ max_wait >= 1) =>
        queries <= CeilDiv(max_wait, poll_interval)

C9_Witness ==
    /\ poll_interval >= 2
    /\ max_wait > poll_interval
    /\ max_wait % poll_interval # 0
    /\ ppc = "done"
    /\ queries = CeilDiv(max_wait, poll_interval)

FailStateInv ==
    /\ (lastStatus = "FAIL" => ppc = "done" /\ outcome = "Failed")
    /\ (firstStatus = "FAIL" =>
            queries = 1 /\ sleeps = 0 /\ ppc = "done" /\ outcome = "Failed")

FailStep == lastStatus = "FAIL" => queries' = queries /\ sleeps' = sleeps

\* C10: a status query that returns FAIL ends the run in Failed with no
\* sleep and no status query after it; a FAIL on the first query means
\* exactly one query and zero sleeps.
C10_FailIsImmediate == []FailStateInv /\ [][FailStep]_vars

C10_Witness ==
    /\ firstStatus = "FAIL"
    /\ outcome = "Failed"
    /\ queries = 1
    /\ sleeps = 0

CompletedStateInv ==
    /\ (outcome = "Completed" =>
            /\ ppc = "done"
            /\ lastStatus = "SUCCESS"
            \* k sleeps were made and elapsed is k * poll_interval < max_wait
            /\ elapsed = sleeps * poll_interval
            /\ elapsed < max_wait
            \* the SUCCESS came from query k + 1, the k before were non-terminal
            /\ (queries < CounterCap => sleeps = queries - 1)
            /\ (queries = 1 => firstStatus = "SUCCESS")
            /\ (queries > 1 => NonTerminal(firstStatus)))
    \* the scenario PENDING, PENDING, SUCCESS with the default parameters
    /\ (/\ outcome = "Completed"
        /\ poll_interval = DefaultPollInterval
        /\ max_wait = DefaultMaxWait
        /\ queries = 3
        => sleeps = 2 /\ elapsed = 20)

CompletedStep ==
    \* after k sleeps with k * poll_interval < max_wait query k + 1 is made
    /\ (ppc = "loop" /\ sleeps * poll_interval < max_wait => ppc' = "query")
    \* a query that yields SUCCESS ends the run without a sleep
    /\ (ppc = "query" /\ lastStatus' = "SUCCESS" =>
            outcome' = "Completed" /\ ppc' = "done" /\ sleeps' = sleeps)
    \* and nothing is queried afterwards
    /\ (lastStatus = "SUCCESS" => queries' = queries /\ sleeps' = sleeps)

\* C11: when the first k status queries are non-terminal, query k + 1 yields
\* SUCCESS and k * poll_interval < max_wait, the run ends Completed after
\* exactly k sleeps with elapsed = k * poll_interval and queries nothing more;
\* PENDING, PENDING, SUCCESS with poll_interval 10 and max_wait 300 gives
\* 2 sleeps and elapsed 20.
C11_CompletedAfterKSleeps == []CompletedStateInv /\ [][CompletedStep]_vars

C11_Witness ==
    /\ outcome = "Completed"
    /\ poll_interval = 10
    /\ max_wait = 300
    /\ queries = 3
    /\ NonTerminal(firstStatus)
    /\ sleeps = 2
    /\ elapsed = 20

ErrorStateInv == lastStatus = QueryRaises => ppc = "done" /\ outcome = "Error"

ErrorStep ==
    /\ (ppc = "query" /\ lastStatus' = QueryRaises => ppc' = "done")
    /\ (lastStatus = QueryRaises => queries' = queries /\ sleeps' = sleeps)

\* C12: a status query that raises a transport error is not retried: the run
\* ends there, with no further status query and no further sleep.
C12_TransportErrorNotRetried == []ErrorStateInv /\ [][ErrorStep]_vars

C12_Witness ==
    /\ lastStatus = QueryRaises
    /\ firstStatus = "PROCESSING"
    /\ queries = 2
    /\ sleeps = 1
    /\ ppc = "done"

\* the values run can return to its caller with the given outcome
ReturnsOf(o) ==
    IF o = "Completed"
    THEN {SuccessReturn(im, id, vr) :
            im \in PollImpls, id \in JobIds, vr \in VideoResults}
    ELSE IF o = "TimedOut" THEN {TimeoutReturn(id) : id \in JobIds}
    ELSE {None}

\* C13: what run returns after a transport error in a status query differs
\* from everything it returns for Failed, for Completed and for TimedOut.
C13_TransportErrorDistinguishable ==
    outcome = "Error" =>
        \A o \in {"Failed", "Completed", "TimedOut"} : ret \notin ReturnsOf(o)

\* C14: a run that ends TimedOut returns (does not raise) a value carrying
\* the job identifier the submission returned.
C14_TimedOutCarriesJobId ==
    outcome = "TimedOut" =>
        /\ ret.kind = "dict"
        /\ ret.id = video_id
        /\ ret.status = "pending"

C14_Witness ==
    /\ outcome = "TimedOut"
    /\ video_id = "job2"
    /\ queries >= 1
    /\ ret = TimeoutReturn("job2")

\* C15: SUCCESS with an empty video_result ends Completed with no payload
\* and no error, returning a value unlike the ones of Failed and TimedOut;
\* with a non-empty video_result the payload is taken from its first entry.
C15_CompletedPayload ==
    outcome = "Completed" =>
        /\ ret \notin ReturnsOf("Failed") \cup ReturnsOf("TimedOut")
        /\ IF pimpl = "sdk"
           THEN /\ ret.video_url = IF lastVideoResult = <<>> THEN "None"
                                   ELSE lastVideoResult[1].url
                /\ ret.cover_url = IF lastVideoResult = <<>> THEN "None"
                                   ELSE lastVideoResult[1].cover_image_url
           ELSE ret.video_result = lastVideoResult

C15_Witness ==
    /\ outcome = "Completed"
    /\ pimpl = "sdk"
    /\ lastVideoResult = <<>>
    /\ ret.video_url = "None"
    /\ ret.cover_url = "None"

\* ------------------------------------------------------------------------
\* Chunk accumulator: the order in which the tool calls are consumed
\* ------------------------------------------------------------------------

\* the index of the entry each arrived delta went to
ArrivedIndices(fs) == [p \in 1..Len(fs) |-> IndexOf(fs[p].tool_calls.v[1])]

\* The key order of the dict tool_calls: a dict iterates in insertion order,
\* and  tool_calls[idx] = {...}  inserts idx when its first delta arrives.
RECURSIVE FirstSeen(_)
FirstSeen(is) ==
    IF is = <<>> THEN <<>>
    ELSE LET r == FirstSeen(SubSeq(is, 1, Len(is) - 1))
             x == is[Len(is)]
         IN IF \E p \in DOMAIN r : r[p] = x THEN r ELSE Append(r, x)

InsertionOrder == FirstSeen(ArrivedIndices(arrived))

\* the keys in ascending order: sorted(final_tool_calls.items())
RECURSIVE Sorted(_)
Sorted(S) ==
    IF S = {} THEN <<>>
    ELSE LET m == CHOOSE x \in S : \A y \in S : x <= y
         IN <<m>> \o Sorted(S \ {m})

\* the copies that display or execute the assembled tool calls themselves
\* (create_streaming_chat_with_tools hands the dict to its caller)
Displaying == {"sdk_demo", "http_tools"}

\* The order in which the assembled tool calls are displayed or executed:
\* function_calling.demo_streaming_tool_calls iterates sorted(...items()),
\* chat_completion.demo_streaming_tool_calls prints json.dumps(tool_calls),
\* which writes the keys in the order of the dict.
DisplayOrder(im) ==
    IF im = "sdk_demo" THEN Sorted(DOMAIN tool_calls) ELSE InsertionOrder

\* C16: whatever the arrival order of the tool-call fragments, the assembled
\* tool calls are displayed or executed in ascending index order.
C16_AscendingIndexOrder ==
    (impl \in Displaying /\ apc = "done" /\ ~raised) =>
        DisplayOrder(impl) = Sorted(DOMAIN tool_calls)

\* ------------------------------------------------------------------------
\* The callers' loop over the finalized tool calls of one response
\* ------------------------------------------------------------------------

\* a response holds 1..MaxCalls tool calls
MaxCalls == 2

\* The callers that parse the arguments of a finalized tool call:
\*   "fc_run"         function_calling.run
\*   "fc_demo"        function_calling.demo_streaming_tool_calls
\*   "thinking_demo"  thinking_mode.demo_interleaved_thinking
\*   "agent_run"      multi_function_agent.run
Callers == {"fc_run", "fc_demo", "thinking_demo", "agent_run"}

ToolNames == {"calculate", "get_current_time"}

\* Argument strings, as sequences of JSON tokens: the empty string, objects,
\* a truncated object and an object followed by a stray brace.
ArgumentTexts ==
    {<<>>,
     <<"{", "}">>,
     <<"{", "k", ":", "1", "}">>,
     <<"{", "k", ":", "{", "}", "}">>,
     <<"{", "k", ":">>,
     <<"{", "k", ":", "1", "}", "}">>}

\* json.loads accepts the text: a number, or an object that is empty or
\* holds one key with a value
RECURSIVE IsJsonValue(_)
IsJsonValue(t) ==
    \/ t = <<"1">>
    \/ /\ Len(t) >= 2
       /\ t[1] = "{"
       /\ t[Len(t)] = "}"
       /\ \/ Len(t) = 2
          \/ /\ Len(t) >= 5
             /\ t[2] = "k"
             /\ t[3] = ":"
             /\ IsJsonValue(SubSeq(t, 4, Len(t) - 1))

\* json.loads(arguments) raises json.JSONDecodeError
ParseFails(tc) == ~IsJsonValue(tc.arguments)

FinalToolCalls == [name : ToolNames, arguments : ArgumentTexts]

\* the caller reaches json.loads for this tool call (thinking_mode only
\* looks at calls of "calculate")
Attempts(c, tc) == c # "thinking_demo" \/ tc.name = "calculate"

InitTools ==
    /\ caller \in Callers
    /\ calls \in UNION {[1..n -> FinalToolCalls] : n \in 1..MaxCalls}
    /\ cpos = 1
    /\ executed = {}
    /\ reported = {}
    /\ cpc = "calls"
    /\ PollIdle
    /\ AccIdle
    /\ EvalIdle
    /\ AuxIdle

\* One iteration of the for loop over the tool calls. A JSONDecodeError is
\* caught next to json.loads and the loop goes on (function_calling.run
\* 295-306, demo_streaming_tool_calls 526-599, thinking_mode 206-210); in
\* multi_function_agent.run (332) it is caught by the except around the
\* whole run (368-370), which prints it and returns None.
HandleToolCall ==
    /\ cpc = "calls"
    /\ LET tc == calls[cpos]
           next == IF cpos = Len(calls) THEN "done" ELSE "calls"
       IN IF ~Attempts(caller, tc)
          THEN /\ cpc' = next
               /\ cpos' = cpos + 1
               /\ UNCHANGED <<executed, reported>>
          ELSE IF ParseFails(tc)
          THEN /\ reported' = reported \cup {cpos}
               /\ cpc' = IF caller = "agent_run" THEN "aborted" ELSE next
               /\ cpos' = IF caller = "agent_run" THEN cpos ELSE cpos + 1
               /\ UNCHANGED executed
          ELSE /\ executed' = executed \cup {cpos}
               /\ cpc' = next
               /\ cpos' = cpos + 1
               /\ UNCHANGED reported
    /\ UNCHANGED <<caller, calls>>
    /\ UNCHANGED <<pollVars, accVars, evalVars, auxVars>>

NextTools == HandleToolCall

SpecTools == InitTools /\ [][NextTools]_vars

\* the loop is past position i
Past(i) == cpc # "calls" \/ cpos > i

\* C17: in every caller that parses the finalized arguments, a tool call
\* whose arguments are not well-formed JSON is not executed, a parse error
\* is reported for it, and the tool calls after it are still processed.
C17_ParseErrorContained ==
    \A i \in DOMAIN calls :
        (Attempts(caller, calls[i]) /\ ParseFails(calls[i]) /\ Past(i)) =>
            /\ i \notin executed
            /\ i \in reported
            /\ (cpc # "calls" =>
                    \A j \in DOMAIN calls :
                        (j > i /\ Attempts(caller, calls[j])) =>
                            j \in executed \cup reported)

\* ------------------------------------------------------------------------
\* Safe expression evaluator: numbers and the functions of operator
\* ------------------------------------------------------------------------

\* The numbers are rationals n/d in lowest terms with d > 0; numerators
\* and denominators stay within MaxMagnitude, exponents within MaxExponent.
MaxMagnitude == 100

MaxExponent == 6

Abs(x) == IF x < 0 THEN -x ELSE x

RECURSIVE Gcd(_, _)
Gcd(a, b) == IF b = 0 THEN a ELSE Gcd(b, a % b)

\* What evaluating a node gives: a value, or an exception with its message
\* (a sequence of message parts).
Raised(exc, msg) == [kind |-> "raise", exc |-> exc, error |-> msg, n |-> 0, d |-> 1]

\* the expression leaves the numbers the model represents
OutOfModel == [kind |-> "omitted", exc |-> "", error |-> <<>>, n |-> 0, d |-> 1]

\* the number n/d (d # 0)
Rat(n, d) ==
    LET g == Gcd(Abs(n), Abs(d))
        s == IF d < 0 THEN -1 ELSE 1
    IN IF Abs(n) \div g > MaxMagnitude \/ Abs(d) \div g > MaxMagnitude
       THEN OutOfModel
       ELSE [kind |-> "value", exc |-> "", error |-> <<>>,
             n |-> (s * n) \div g, d |-> (s * d) \div g]

\* a / 0, a % 0, 0 ** -k
ZeroDivision == Raised("ZeroDivisionError", <<"division by zero">>)

RatAdd(a, b) == Rat(a.n * b.d + b.n * a.d, a.d * b.d)

RatSub(a, b) == Rat(a.n * b.d - b.n * a.d, a.d * b.d)

RatMul(a, b) == Rat(a.n * b.n, a.d * b.d)

RatDiv(a, b) == IF b.n = 0 THEN ZeroDivision ELSE Rat(a.n * b.d, a.d * b.n)

\* the largest integer not above a / b, as a number
RatFloorDiv(a, b) ==
    IF b.n = 0 THEN ZeroDivision
    ELSE LET q == RatDiv(a, b)
         IN IF q.kind = "value" THEN Rat(q.n \div q.d, 1) ELSE q

\* a % b takes the sign of b: a - b * floor(a / b)
RatMod(a, b) ==
    LET q == RatFloorDiv(a, b)
    IN IF q.kind = "value" THEN RatSub(a, RatMul(b, q)) ELSE q

RECURSIVE RatPowNat(_, _)
RatPowNat(a, e) ==
    IF e = 0 THEN Rat(1, 1)
    ELSE LET r == RatPowNat(a, e - 1)
         IN IF r.kind = "value" THEN RatMul(r, a) ELSE r

\* a ** b for an integral exponent; other exponents give numbers that are
\* no rationals
RatPow(a, b) ==
    IF b.d # 1 \/ Abs(b.n) > MaxExponent THEN OutOfModel
    ELSE IF b.n >= 0 THEN RatPowNat(a, b.n)
    ELSE IF a.n = 0 THEN ZeroDivision
    ELSE RatPowNat(Rat(a.d, a.n), -b.n)

\* A float near the top of the double range (the literal 1e200): d = 0
\* marks it as no rational of the model.
HugeFloat == [kind |-> "value", exc |-> "", error |-> <<>>, n |-> 1, d |-> 0]

\* float.__pow__ raises OverflowError when the result leaves the double
\* range; the other operations on such floats are not represented
FloatApply(fn, a, b) ==
    IF fn = "pow" /\ a = HugeFloat /\ b.d = 1 /\ b.n >= 2
    THEN Raised("OverflowError", <<"Numerical result out of range">>)
    ELSE OutOfModel

\* the functions of the module operator, applied to rationals
RatApply(fn, a, b) ==
    CASE fn = "add" -> RatAdd(a, b)
      [] fn = "sub" -> RatSub(a, b)
      [] fn = "mul" -> RatMul(a, b)
      [] fn = "truediv" -> RatDiv(a, b)
      [] fn = "floordiv" -> RatFloorDiv(a, b)
      [] fn = "pow" -> RatPow(a, b)
      [] fn = "mod" -> RatMod(a, b)
      [] fn = "neg" -> Rat(-a.n, a.d)
      [] fn = "pos" -> a

\* the functions of the module operator, applied to numbers
Apply(fn, a, b) ==
    IF a.d = 0 \/ b.d = 0 THEN FloatApply(fn, a, b) ELSE RatApply(fn, a, b)

\* ------------------------------------------------------------------------
\* Safe expression evaluator: calculate and safe_calculate
\* ------------------------------------------------------------------------

\* the copies: function_calling.calculate returns a dict with "result" or
\* "error"; thinking_mode.safe_calculate returns the number or raises
\* ValueError
EvalImpls == {"calculate", "safe_calculate"}

\* mutant of SafeOperators: Div is bound to floor division
SafeOperatorsFloorDiv ==
    [o \in {"Add", "Sub", "Mult", "Div", "Pow", "USub", "UAdd", "Mod"} |->
        CASE o = "Add" -> "add" [] o = "Sub" -> "sub" [] o = "Mult" -> "mul"
          [] o = "Div" -> "floordiv" [] o = "Pow" -> "pow"
          [] o = "USub" -> "neg" [] o = "UAdd" -> "pos" [] o = "Mod" -> "mod"]

\* SAFE_OPERATORS
SafeOperators ==
    [o \in {"Add", "Sub", "Mult", "Div", "Pow", "USub", "UAdd", "Mod"} |->
        CASE o = "Add" -> "add" [] o = "Sub" -> "sub" [] o = "Mult" -> "mul"
          [] o = "Div" -> "truediv" [] o = "Pow" -> "pow"
          [] o = "USub" -> "neg" [] o = "UAdd" -> "pos" [] o = "Mod" -> "mod"]

\* isinstance(node.value, (int, float)); bool is a subclass of int, so
\* True and False pass as 1 and 0; the float constant of the model is 1e200
NumericTypes == {"int", "float", "bool"}

\* mutant of EvalOther: a node of an unknown class evaluates to 0
EvalOtherZero(t) == Rat(0, 1)

\* the else branch: raise ValueError("Unsupported expression type: ...")
EvalOther(t) == Raised("ValueError", <<"Unsupported expression type">>)

\* safe_eval_node: an exception raised in an operand leaves the whole
\* evaluation; the left operand is evaluated before the right one
RECURSIVE safe_eval_node(_)
safe_eval_node(t) ==
    IF t.node = "Constant"
    THEN IF t.op = "float" THEN HugeFloat
         ELSE IF t.op \in NumericTypes THEN Rat(t.value, 1)
         ELSE Raised("ValueError", <<"Unsupported constant type">>)
    ELSE IF t.node = "BinOp"
    THEN IF t.op \notin DOMAIN SafeOperators
         THEN Raised("ValueError", <<"Unsupported operator">>)
         ELSE LET left == safe_eval_node(t.kids[1])
              IN IF left.kind # "value" THEN left
                 ELSE LET right == safe_eval_node(t.kids[2])
                      IN IF right.kind # "value" THEN right
                         ELSE Apply(SafeOperators[t.op], left, right)
    ELSE IF t.node = "UnaryOp"
    THEN IF t.op \notin DOMAIN SafeOperators
         THEN Raised("ValueError", <<"Unsupported operator">>)
         ELSE LET operand == safe_eval_node(t.kids[1])
              IN IF operand.kind # "value" THEN operand
                 ELSE Apply(SafeOperators[t.op], operand, operand)
    ELSE IF t.node = "Expression"
    THEN safe_eval_node(t.kids[1])
    ELSE EvalOther(t)

\* tree = ast.parse(expression, mode='eval'); result = safe_eval_node(tree)
ParseAndEval(e) ==
    IF e = Unparsable THEN Raised("SyntaxError", <<"invalid syntax">>)
    ELSE safe_eval_node(Node("Expression", "", 0, <<e>>))

Returned(kind, exc, msg, v) ==
    [kind |-> kind, exc |-> exc, error |-> msg, n |-> v.n, d |-> v.d]

\* function_calling.calculate: every exception becomes {"error": message}
calculate(e) ==
    LET r == ParseAndEval(e)
    IN IF r.kind = "value" THEN Returned("result", "", <<>>, r)
       ELSE IF r.kind = "omitted" THEN r
       ELSE IF r.exc = "SyntaxError"
       THEN Returned("error", "", <<"Invalid expression syntax: ">> \o r.error, r)
       ELSE IF r.exc = "ValueError" THEN Returned("error", "", r.error, r)
       ELSE IF r.exc = "ZeroDivisionError"
       THEN Returned("error", "", <<"Division by zero">>, r)
       ELSE Returned("error", "", <<"Calculation failed: ">> \o r.error, r)

\* thinking_mode.safe_calculate: SyntaxError, ValueError and
\* ZeroDivisionError are raised again as ValueError("Invalid expression: ...")
safe_calculate(e) ==
    LET r == ParseAndEval(e)
    IN IF r.kind = "value" THEN Returned("result", "", <<>>, r)
       ELSE IF r.kind = "omitted" THEN r
       ELSE IF r.exc \in {"SyntaxError", "ValueError", "ZeroDivisionError"}
       THEN Raised("ValueError", <<"Invalid expression: ">> \o r.error)
       ELSE r

\* ------------------------------------------------------------------------
\* Safe expression evaluator: the expressions and the call
\* ------------------------------------------------------------------------

\* the enumerated expression trees have at most MaxNodes nodes
MaxNodes == 4

Num(v) == Node("Constant", "int", v, <<>>)

BinOp(o, l, r) == Node("BinOp", o, 0, <<l, r>>)

UnaryOp(o, k) == Node("UnaryOp", o, 0, <<k>>)

\* node classes safe_eval_node has no branch for
OtherNodes == {"Name", "Call", "Attribute", "Compare"}

\* numeric literals, True, a string literal, and the other node classes
\* (their operands are never looked at)
Leaves ==
    {Num(v) : v \in {0, 2, 3, 4}}
    \cup {Node("Constant", "bool", 1, <<>>), Node("Constant", "str", 0, <<>>)}
    \cup {Node(k, "", 0, <<>>) : k \in OtherNodes}

\* the operators of SAFE_OPERATORS, and // and not, which it leaves out
BinaryOps == {"Add", "Sub", "Mult", "Div", "Pow", "Mod", "FloorDiv"}

UnaryOps == {"USub", "UAdd", "Not"}

\* the trees with n nodes whose left operand has i nodes (i = 0: leaves
\* and unary operations)
RECURSIVE TreesSplit(_, _)
RECURSIVE TreesOfSize(_)
TreesSplit(n, i) ==
    IF n = 1 THEN Leaves
    ELSE IF i = 0
    THEN {UnaryOp(o, k) : o \in UnaryOps, k \in TreesOfSize(n - 1)}
    ELSE {BinOp(o, l, r) : o \in BinaryOps,
                           l \in TreesOfSize(i),
                           r \in TreesOfSize(n - 1 - i)}

LeftSizes(n) == IF n <= 2 THEN {0} ELSE 0..(n - 2)

TreesOfSize(n) == UNION {TreesSplit(n, i) : i \in LeftSizes(n)}

\* 2 + 3 * 4
TwoPlusThreeTimesFour == BinOp("Add", Num(2), BinOp("Mult", Num(3), Num(4)))

\* (2 + 3) * 4
TwoPlusThreeAllTimesFour == BinOp("Mult", BinOp("Add", Num(2), Num(3)), Num(4))

\* 2 / 0 + x  and  x + 2 / 0  and  2 % 0 + f()
ZeroDivisorThenName ==
    BinOp("Add", BinOp("Div", Num(2), Num(0)), Node("Name", "", 0, <<>>))

NameThenZeroDivisor ==
    BinOp("Add", Node("Name", "", 0, <<>>), BinOp("Div", Num(2), Num(0)))

ZeroModulusThenCall ==
    BinOp("Add", BinOp("Mod", Num(2), Num(0)), Node("Call", "", 0, <<>>))

ScenarioTrees ==
    {TwoPlusThreeTimesFour, TwoPlusThreeAllTimesFour, ZeroDivisorThenName,
     NameThenZeroDivisor, ZeroModulusThenCall}

\* the evaluation stays within the numbers of the model
InModel(t) == safe_eval_node(t).kind # "omitted"

\* the expression is a string that does not parse, one of the scenarios,
\* or any tree of at most MaxNodes nodes
InitEval ==
    /\ eimpl \in EvalImpls
    /\ \/ expr \in {Unparsable} \cup ScenarioTrees
       \/ \E n \in 1..MaxNodes : \E i \in LeftSizes(n) : expr \in TreesSplit(n, i)
    /\ InModel(expr)
    /\ eout = NoOutcome
    /\ epc = "call"
    /\ PollIdle
    /\ AccIdle
    /\ ToolIdle
    /\ AuxIdle

\* the call calculate(expression) or safe_calculate(expression)
Evaluate ==
    /\ epc = "call"
    /\ eout' = IF eimpl = "calculate" THEN calculate(expr)
               ELSE safe_calculate(expr)
    /\ epc' = "done"
    /\ UNCHANGED <<eimpl, expr>>
    /\ UNCHANGED <<pollVars, accVars, toolVars, auxVars>>

NextEval == Evaluate

SpecEval == InitEval /\ [][NextEval]_vars

\* ------------------------------------------------------------------------
\* Safe expression evaluator: properties
\* ------------------------------------------------------------------------

AllowedBinary == {"Add", "Sub", "Mult", "Div", "Mod", "Pow"}

AllowedUnary == {"USub", "UAdd"}

\* The tree holds a node outside the allow-list: a name, call, attribute
\* access or comparison, a constant that is no number, or another operator.
\* True and False count as numbers (bool is a numeric type of the language).
RECURSIVE HasDisallowed(_)
HasDisallowed(t) ==
    IF t.node = "Constant" THEN t.op \notin {"int", "float", "bool"}
    ELSE IF t.node = "BinOp"
    THEN \/ t.op \notin AllowedBinary
         \/ HasDisallowed(t.kids[1])
         \/ HasDisallowed(t.kids[2])
    ELSE IF t.node = "UnaryOp"
    THEN t.op \notin AllowedUnary \/ HasDisallowed(t.kids[1])
    ELSE TRUE

\* The value of a tree of numeric literals and allowed operators by the
\* rules of arithmetic; ZeroDivision where a divisor is zero.
RECURSIVE Arith(_)
Arith(t) ==
    IF t.node = "Constant" THEN Rat(t.value, 1)
    ELSE IF t.node = "UnaryOp"
    THEN LET a == Arith(t.kids[1])
         IN IF a.kind # "value" THEN a
            ELSE IF t.op = "USub" THEN Rat(-a.n, a.d) ELSE a
    ELSE LET a == Arith(t.kids[1])
             b == Arith(t.kids[2])
         IN IF a.kind # "value" THEN a
            ELSE IF b.kind # "value" THEN b
            ELSE CASE t.op = "Add" -> RatAdd(a, b)
                   [] t.op = "Sub" -> RatSub(a, b)
                   [] t.op = "Mult" -> RatMul(a, b)
                   [] t.op = "Div" -> RatDiv(a, b)
                   [] t.op = "Mod" -> RatMod(a, b)
                   [] t.op = "Pow" -> RatPow(a, b)

UnsupportedMessages ==
    {"Unsupported constant type", "Unsupported operator",
     "Unsupported expression type"}

\* The kind of outcome the caller can read off what it is handed: the
\* "error" text of the dict calculate returns, the message of the
\* ValueError safe_calculate raises.
KindOf(o) ==
    IF o.kind = "result" THEN "Value"
    ELSE IF o.error \in {<<"Division by zero">>,
                         <<"Invalid expression: ", "division by zero">>}
    THEN "DivisionByZero"
    ELSE IF o.error \in {<<"Invalid expression syntax: ", "invalid syntax">>,
                         <<"Invalid expression: ", "invalid syntax">>}
    THEN "InvalidSyntax"
    ELSE IF o.error # <<>> /\ o.error[Len(o.error)] \in UnsupportedMessages
    THEN "UnsupportedOperation"
    ELSE "Other"

ArithmeticInv ==
    (epc = "done" /\ expr # Unparsable /\ ~HasDisallowed(expr)) =>
        LET a == Arith(expr)
        IN IF a.kind = "value"
           THEN eout.kind = "result" /\ eout.n = a.n /\ eout.d = a.d
           ELSE a = ZeroDivision => KindOf(eout) = "DivisionByZero"

ScenarioInv ==
    epc = "done" =>
        /\ (expr = TwoPlusThreeTimesFour =>
                eout.kind = "result" /\ eout.n = 14 /\ eout.d = 1)
        /\ (expr = TwoPlusThreeAllTimesFour =>
                eout.kind = "result" /\ eout.n = 20 /\ eout.d = 1)
        /\ (expr = BinOp("Div", Num(2), Num(0)) =>
                KindOf(eout) = "DivisionByZero")
        /\ (expr = BinOp("Mod", Num(2), Num(0)) =>
                KindOf(eout) = "DivisionByZero")
        /\ (expr = Unparsable =>
                KindOf(eout) \in {"UnsupportedOperation", "InvalidSyntax"})

\* C18: over numeric literals and the allowed operators evaluate returns
\* the value of arithmetic (2+3*4 is 14, (2+3)*4 is 20); a zero divisor in
\* / or % fails with the DivisionByZero kind, which differs from
\* UnsupportedOperation and InvalidSyntax; "import os" fails with
\* UnsupportedOperation or InvalidSyntax.
C18_StandardArithmetic == ArithmeticInv /\ ScenarioInv

C18_Witness ==
    /\ epc = "done"
    /\ expr = TwoPlusThreeTimesFour
    /\ eout.kind = "result"
    /\ eout.n = 14

\* C19: a tree that holds a node outside the allow-list at any position
\* never makes evaluate return a value.
C19_DisallowedNeverEvaluates ==
    (epc = "done" /\ expr # Unparsable /\ HasDisallowed(expr)) =>
        eout.kind # "result"

C19_Witness ==
    /\ epc = "done"
    /\ expr.node = "BinOp"
    /\ expr.op = "Mult"
    /\ ~HasDisallowed(expr.kids[1])
    /\ expr.kids[2].node = "UnaryOp"
    /\ expr.kids[2].op = "USub"
    /\ expr.kids[2].kids[1].node = "Attribute"
    /\ eout.kind # "result"

\* C20: whenever the tree holds anything outside the allow-list, evaluate
\* fails with the UnsupportedOperation kind, wherever the node sits and
\* whatever else the expression holds (also an operand that divides by 0).
C20_DisallowedIsUnsupported ==
    (epc = "done" /\ expr # Unparsable /\ HasDisallowed(expr)) =>
        KindOf(eout) = "UnsupportedOperation"

\* ------------------------------------------------------------------------
\* Job poller: further properties
\* ------------------------------------------------------------------------

\* C24: TimedOut is entered only after polling: for every max_wait (also 0,
\* or smaller than poll_interval) a run makes at least one status query
\* before it returns TimedOut.
C24_TimedOutOnlyAfterQuery == outcome = "TimedOut" => queries >= 1

\* ------------------------------------------------------------------------
\* Chunk accumulator: frame conditions
\* ------------------------------------------------------------------------

\* the SDK copies of the loop
SdkImpls == {"sdk", "sdk_demo", "sdk_chat"}

\* the channels a fragment populates
PopulatesContent(f) == HasDelta(f) /\ Truthy(f.content)

PopulatesReasoning(f) == HasDelta(f) /\ Truthy(f.reasoning_content)

PopulatesToolCalls(f) ==
    HasDelta(f) /\ f.tool_calls.k = "list" /\ f.tool_calls.v # <<>>

\* the fragments that populate no channel, one text channel, both text
\* channels, or the tool calls alone with one delta
FrameFragments ==
    {f \in Fragments :
        \/ ~PopulatesToolCalls(f)
        \/ /\ ~PopulatesContent(f)
           /\ ~PopulatesReasoning(f)
           /\ Len(f.tool_calls.v) = 1
           /\ f.tool_calls.v[1] \in PairedDeltas}

\* what consuming f next would leave unchanged
FrameOf(f) ==
    LET st == ConsumeChunk(impl, Acc, f)
    IN /\ (~PopulatesContent(f) => st.content = content)
       /\ (~PopulatesReasoning(f) => st.reasoning = reasoning)
       /\ (~PopulatesToolCalls(f) => st.tool_calls = tool_calls)
       /\ (~PopulatesContent(f) /\ ~PopulatesReasoning(f)
           /\ ~PopulatesToolCalls(f) => st = Acc)

\* C25: consuming a fragment leaves unchanged every part of the state the
\* fragment does not populate (a fragment without choices, without delta or
\* with all fields absent or empty changes nothing), and after zero
\* fragments or only empty ones the result is empty content, empty
\* reasoning and an empty tool-call map.
C25_FrameCondition ==
    (impl \in SdkImpls /\ ~raised) =>
        /\ \A f \in FrameFragments : FrameOf(f)
        /\ (nfrags = 0 => Acc = EmptyAcc)
        /\ (apc = "done" /\ delivered = EmptyMap /\ content = <<>>
            /\ reasoning = <<>> => tool_calls = EmptyMap)

C25_Witness ==
    /\ impl = "sdk"
    /\ ~raised
    /\ nfrags = 2
    /\ Len(content) >= 2
    /\ reasoning # <<>>
    /\ tool_calls # EmptyMap

\* ------------------------------------------------------------------------
\* The list-based accumulator of thinking_mode.demo_interleaved_thinking
\* ------------------------------------------------------------------------

\* reasoning = "", content = "", tool_calls = []
EmptyListAcc == [content |-> <<>>, reasoning |-> <<>>, tool_calls |-> <<>>,
                 raised |-> FALSE]

\* tool_calls.append({"id": tc.id, "function": {"name": "", "arguments": ""}})
ListNewEntry(tc) == [id |-> tc.id, name |-> Str(<<>>), arguments |-> Str(<<>>)]

\* if tc.index >= len(tool_calls): tool_calls.append(...)
ListGrow(l, tc) == IF tc.index >= Len(l) THEN Append(l, ListNewEntry(tc)) ELSE l

\* the two assignments to tool_calls[tc.index]; list positions count from 0
ListAssign(l, tc) ==
    [l EXCEPT ![tc.index + 1] =
        [@ EXCEPT !.name = IF Truthy(tc.name) THEN tc.name ELSE @,
                  !.arguments = IF Truthy(tc.arguments)
                                THEN Str(AppendText(@.v, tc.arguments.v)) ELSE @]]

\* The body of  for tc in delta.tool_calls  (thinking_mode.py 176-185):
\* tc.function.name of a None function raises AttributeError after the
\* append; tool_calls[tc.index] past the end raises IndexError.
ListToolCall(st, tc) ==
    LET l == ListGrow(st.tool_calls, tc)
        grown == [st EXCEPT !.tool_calls = l]
    IN IF tc.function = "null" THEN Raise(grown)
       ELSE IF (Truthy(tc.name) \/ Truthy(tc.arguments)) /\ tc.index >= Len(l)
       THEN Raise(grown)
       ELSE IF Truthy(tc.name) \/ Truthy(tc.arguments)
       THEN [st EXCEPT !.tool_calls = ListAssign(l, tc)]
       ELSE grown

RECURSIVE ListToolCalls(_, _)
ListToolCalls(st, tcs) ==
    IF st.raised \/ tcs = <<>> THEN st
    ELSE ListToolCalls(ListToolCall(st, Head(tcs)), Tail(tcs))

\* one iteration of  for chunk in response  (thinking_mode.py 166-185)
ListChunk(st, f) ==
    IF ~f.choices \/ f.delta = "null" THEN st
    ELSE LET texts == SdkAppend(SdkAppend(st, "reasoning", f.reasoning_content),
                                "content", f.content)
         IN IF f.tool_calls.k = "list" /\ f.tool_calls.v # <<>>
            THEN ListToolCalls(texts, f.tool_calls.v)
            ELSE texts

\* the locals after the loop has consumed fs, or raised
RECURSIVE ListConsumeAll(_, _)
ListConsumeAll(st, fs) ==
    IF st.raised \/ fs = <<>> THEN st
    ELSE ListConsumeAll(ListChunk(st, Head(fs)), Tail(fs))

\* the tool calls of demo_interleaved_thinking for the fragments arrived
ListResult == ListConsumeAll(EmptyListAcc, arrived)

\* C27: for every fragment sequence the list-based accumulator completes
\* and holds, per index, the same identifier, function name and arguments
\* as the map-based accumulator of create_streaming_chat_with_tools.
C27_ListMatchesMap ==
    (impl = "sdk" /\ ~raised) =>
        /\ ~ListResult.raised
        /\ DOMAIN tool_calls = 0 .. (Len(ListResult.tool_calls) - 1)
        /\ \A i \in DOMAIN tool_calls : ListResult.tool_calls[i + 1] = tool_calls[i]

\* ------------------------------------------------------------------------
\* The raw-HTTP consumer of chat_completion.run beside streaming_chat.run
\* ------------------------------------------------------------------------

\* data lines that may follow the [DONE] line on the wire
MaxLate == 1

\* the data lines of a text stream: chunks without choices, with an empty
\* delta, and with content and reasoning absent, null, empty or text
TextLines ==
    {Fragment(FALSE, "null", Absent, Absent, Absent),
     Fragment(TRUE, "obj", Absent, Absent, Absent)}
    \cup TextFragments

\* chat_completion.run consumes the stream; streaming_chat.run, kept in
\* split.acc, is given the same fragments
InitSentinel ==
    /\ InitAcc
    /\ impl = "http_run"

\* one data line before the sentinel: both loops run their body on it
DeliverLine(f) ==
    /\ CanConsume
    /\ Step(f)
    /\ split' = [split EXCEPT !.acc = ConsumeChunk("sdk_chat", @, f)]
    /\ UNCHANGED <<delivered, arrived>>

\* A data line after "data: [DONE]": the loop has left through break
\* (chat_completion.py 87-88) and the SDK iterator is exhausted, so the
\* line stays unread on the wire.
LateLine(f) ==
    /\ apc = "done"
    /\ Len(arrived) < MaxLate
    /\ arrived' = Append(arrived, f)
    /\ UNCHANGED <<impl, content, reasoning, tool_calls, raised, apc, nfrags,
                   delivered, split>>
    /\ UNCHANGED <<pollVars, toolVars, evalVars, auxVars>>

DeliverTextLine == \E f \in TextLines : DeliverLine(f)

DeliverLateLine == \E f \in TextLines : LateLine(f)

NextSentinel == DeliverTextLine \/ EndOfStream \/ DeliverLateLine

SpecSentinel == InitSentinel /\ [][NextSentinel]_vars

\* C28: for every fragment sequence ended by the sentinel the raw-HTTP
\* consumer completes with the same content and reasoning strings as the
\* SDK consumer given the same fragments, also for fields present but null
\* or empty, and whatever follows the sentinel.
C28_HttpMatchesSdk ==
    (impl = "http_run" /\ (raised \/ apc = "done")) =>
        /\ ~raised
        /\ ~split.acc.raised
        /\ content = split.acc.content
        /\ reasoning = split.acc.reasoning

\* ------------------------------------------------------------------------
\* The four copies of the polling loop, given the same remote statuses
\* ------------------------------------------------------------------------

\* mutant of CopyLoopCondition: the raw-HTTP copy tests the deadline with <=
CopyLoopConditionHttpLE(c, e, mw) ==
    IF c = "http" THEN LoopConditionLE(e, mw) ELSE LoopCondition(e, mw)

\* while elapsed < max_wait  (text_to_video.py 86, image_to_video.py 89,
\* start_end_frame.py 96, video_generation.py 111)
CopyLoopCondition(c, e, mw) == LoopCondition(e, mw)

\* what the copy returns on SUCCESS: the SDK copies build a dict (the keys
\* prompt, source_image, start_frame and end_frame are left out), the
\* raw-HTTP copy returns the status response
CopySuccessReturn(c, id, vr) ==
    SuccessReturn(IF c = "http" THEN "http" ELSE "sdk", id, vr)

\* One pass of the copy through its while loop when the next status query
\* yields s: the test, the query, the branches, the sleep. A copy that has
\* returned stays as it is.
CopyIteration(c, st, s, vr) ==
    IF st.pc = "done" THEN st
    ELSE IF ~CopyLoopCondition(c, st.elapsed, max_wait)
    THEN [st EXCEPT !.pc = "done", !.outcome = "TimedOut",
                    !.ret = TimeoutReturn(video_id)]
    ELSE IF AfterStatus(s) = "Running"
    THEN [st EXCEPT !.queries = Bump(@), !.sleeps = Bump(@),
                    !.elapsed = NextElapsed(@, poll_interval)]
    ELSE [st EXCEPT !.queries = Bump(@), !.pc = "done",
                    !.outcome = AfterStatus(s),
                    !.ret = IF AfterStatus(s) = "Completed"
                            THEN CopySuccessReturn(c, video_id, vr)
                            ELSE None]

InitCopies ==
    /\ poll_interval \in PollIntervals
    /\ max_wait \in MaxWaits
    /\ video_id \in JobIds
    /\ elapsed = 0
    /\ ppc = "idle"
    /\ outcome = "Running"
    /\ ret = None
    /\ queries = 0
    /\ sleeps = 0
    /\ firstStatus = "none"
    /\ lastStatus = "none"
    /\ pimpl = "sdk"
    /\ lastVideoResult = <<>>
    /\ copies = [c \in Copies |-> CopyStart]
    /\ CacheIdle
    /\ ConvIdle
    /\ AgentIdle
    /\ AccIdle
    /\ ToolIdle
    /\ EvalIdle

\* the remote job answers the next status query of every copy with s
PollRound(s, vr) ==
    /\ \E c \in Copies : copies[c].pc # "done"
    /\ copies' = [c \in Copies |-> CopyIteration(c, copies[c], s, vr)]
    /\ UNCHANGED <<pollVars, accVars, toolVars, evalVars, cache, conv, agent>>

NextCopies == \E s \in TaskStatuses \cup {QueryRaises}, vr \in VideoResults :
                 /\ (s # "SUCCESS" => vr = <<>>)
                 /\ PollRound(s, vr)

SpecCopies == InitCopies /\ [][NextCopies]_vars

\* the class of a copy's outcome: Completed, Failed, Error, or TimedOut
\* with the value carrying the job id
OutcomeClass(st) ==
    IF st.outcome = "TimedOut" THEN <<st.outcome, st.ret>> ELSE <<st.outcome, None>>

MaxClientCalls == 6

\* api_key and base_url: None, the empty string, or a value
ClientArguments == {"None", "", "custom"}

\* mutant of CacheIsEmpty: every call without arguments constructs a wrapper
CacheIsEmptyAlways(c) == TRUE

\* if _client is None
CacheIsEmpty(c) == c = NoClient

\* if api_key is None and base_url is None
UsesDefaults(api_key, base_url) == api_key = "None" /\ base_url = "None"

\* ZaiClientWrapper(...): the next instance
NewWrapper(ch) == ch.made + 1

\* get_client(api_key, base_url) returning normally
GetClientReturns(ch, api_key, base_url) ==
    IF UsesDefaults(api_key, base_url)
    THEN IF CacheIsEmpty(ch.client)
         THEN [ch EXCEPT !.client = NewWrapper(ch), !.made = @ + 1, !.built = @ + 1,
                         !.defaults = @ \cup {NewWrapper(ch)},
                         !.last = [custom |-> FALSE, before |-> ch.client,
                                   returned |-> NewWrapper(ch)]]
         ELSE [ch EXCEPT !.defaults = @ \cup {ch.client},
                         !.last = [custom |-> FALSE, before |-> ch.client,
                                   returned |-> ch.client]]
    ELSE [ch EXCEPT !.made = @ + 1, !.customs = @ \cup {NewWrapper(ch)},
                    !.last = [custom |-> TRUE, before |-> ch.client,
                              returned |-> NewWrapper(ch)]]

\* whether the call constructs a wrapper
Constructs(ch, api_key, base_url) ==
    ~UsesDefaults(api_key, base_url) \/ CacheIsEmpty(ch.client)

InitCache ==
    /\ PollIdle
    /\ AccIdle
    /\ ToolIdle
    /\ EvalIdle
    /\ CopiesIdle
    /\ ConvIdle
    /\ AgentIdle
    /\ cache = CacheStart

\* One call of get_client. The constructor of the wrapper may raise (ok is
\* FALSE); the exception leaves get_client before any assignment.
GetClient(api_key, base_url, ok) ==
    /\ cache.ncalls < MaxClientCalls
    /\ cache' = IF Constructs(cache, api_key, base_url) /\ ~ok
                THEN [cache EXCEPT !.ncalls = @ + 1]
                ELSE [GetClientReturns(cache, api_key, base_url)
                          EXCEPT !.ncalls = @ + 1]
    /\ UNCHANGED <<pollVars, accVars, toolVars, evalVars, copies, conv, agent>>

\* _get_search_client(): get_client() on the first call, then the stored one
GetSearchClient(ok) ==
    /\ cache.ncalls < MaxClientCalls
    /\ cache' = IF cache.search # NoClient
                THEN [cache EXCEPT !.ncalls = @ + 1,
                                   !.defaults = @ \cup {cache.search},
                                   !.last = [custom |-> FALSE, before |-> cache.client,
                                             returned |-> cache.search]]
                ELSE IF Constructs(cache, "None", "None") /\ ~ok
                THEN [cache EXCEPT !.ncalls = @ + 1]
                ELSE LET ch == GetClientReturns(cache, "None", "None")
                     IN [ch EXCEPT !.ncalls = @ + 1, !.search = ch.last.returned]
    /\ UNCHANGED <<pollVars, accVars, toolVars, evalVars, copies, conv, agent>>

CallGetClient ==
    \E api_key \in ClientArguments, base_url \in ClientArguments, ok \in BOOLEAN :
        GetClient(api_key, base_url, ok)

CallGetSearchClient == \E ok \in BOOLEAN : GetSearchClient(ok)

NextCache == CallGetClient \/ CallGetSearchClient

SpecCache == InitCache /\ [][NextCache]_vars

\* C23: after any sequence of get_client calls, every call without
\* arguments has returned the same wrapper, constructed at most once; a
\* call with a custom api_key or base_url returned an instance no other
\* call returned and left the cached one as it was.
C23_SingleCachedClient ==
    /\ Cardinality(cache.defaults) <= 1
    /\ cache.built <= 1
    /\ cache.defaults \subseteq {cache.client}
    /\ cache.defaults \cap cache.customs = {}
    /\ Cardinality(cache.customs) = cache.made - cache.built
    /\ cache.last.custom =>
           /\ cache.client = cache.last.before
           /\ cache.last.returned = cache.made
           /\ cache.last.returned # cache.client

C23_Witness ==
    /\ cache.ncalls = 4
    /\ cache.made = 3
    /\ cache.built = 1
    /\ Cardinality(cache.customs) = 2
    /\ cache.last.custom
    /\ cache.last.before # NoClient
    /\ cache.search # NoClient

\* ------------------------------------------------------------------------
\* The conversation: multi_turn_chat.Conversation
\* ------------------------------------------------------------------------

\* chat and clear calls made on one Conversation
MaxTurns == 4

\* Conversation(system_prompt): None, the empty string, or a prompt
SystemPrompts == {"None", "", "prompt"}

\* if system_prompt: self.messages.append({"role": "system", ...})
InitialMessages(system_prompt) ==
    IF system_prompt \in {"None", ""} THEN <<>>
    ELSE <<Message("system", system_prompt)>>

\* what create_chat does for one request: a response with content, a
\* response without choices, or an exception
ChatResponses == {"content", "no_choices", "raises"}

\* self.messages.append({"role": "user", "content": content})
add_user_message(msgs, c) == Append(msgs, Message("user", c))

\* self.messages.append({"role": "assistant", "content": content})
add_assistant_message(msgs, c) == Append(msgs, Message("assistant", c))

IsSystem(m) == m.role = "system"

\* [m for m in self.messages if m["role"] == "system"]
SystemMessages(msgs) == SelectSeq(msgs, IsSystem)

\* Conversation.chat: the user message is appended before the request; a
\* request that raises, or response.choices[0] of an empty list, leaves
\* chat before the assistant message is appended
chat(msgs, user_message, response) ==
    LET sent == add_user_message(msgs, user_message)
    IN IF response = "content" THEN add_assistant_message(sent, "reply") ELSE sent

\* Conversation.clear
clear(msgs) == SystemMessages(msgs)

InitConv ==
    /\ PollIdle
    /\ AccIdle
    /\ ToolIdle
    /\ EvalIdle
    /\ CopiesIdle
    /\ CacheIdle
    /\ AgentIdle
    /\ \E sp \in SystemPrompts : conv = ConvStart(InitialMessages(sp))

\* conv.chat(user_input); the caller catches what chat raises (interactive,
\* lines 176-177) and goes on
Chat(user_message, response) ==
    /\ conv.ncalls < MaxTurns
    /\ conv' = [messages |-> chat(conv.messages, user_message, response),
                before |-> conv.messages,
                op |-> IF response = "content" THEN "chat" ELSE "chat_failed",
                ncalls |-> conv.ncalls + 1]
    /\ UNCHANGED <<pollVars, accVars, toolVars, evalVars, copies, cache, agent>>

\* conv.clear()
Clear ==
    /\ conv.ncalls < MaxTurns
    /\ conv' = [messages |-> clear(conv.messages),
                before |-> conv.messages,
                op |-> "clear",
                ncalls |-> conv.ncalls + 1]
    /\ UNCHANGED <<pollVars, accVars, toolVars, evalVars, copies, cache, agent>>

CallChat == \E u \in {"hello", "more"}, response \in ChatResponses : Chat(u, response)

NextConv == CallChat \/ Clear

SpecConv == InitConv /\ [][NextConv]_vars

\* the messages after the leading system messages
Turns(msgs) == SubSeq(msgs, Len(SystemMessages(msgs)) + 1, Len(msgs))

\* user, assistant, user, assistant, ..., ending with an assistant message
Alternating(ts) ==
    /\ Len(ts) % 2 = 0
    /\ \A i \in 1..Len(ts) :
          ts[i].role = IF i % 2 = 1 THEN "user" ELSE "assistant"

\* C29: after any sequence of chat and clear calls, also with chat calls
\* whose request raises, messages is the system-prompt messages followed by
\* alternating user and assistant messages ending with an assistant
\* message; a failed chat leaves messages as before the call; clear leaves
\* exactly the system-prompt messages.
C29_HistoryAlternates ==
    /\ \A i \in 1..Len(SystemMessages(conv.messages)) : IsSystem(conv.messages[i])
    /\ Alternating(Turns(conv.messages))
    /\ (conv.op = "chat_failed" => conv.messages = conv.before)
    /\ (conv.op = "clear" => conv.messages = SystemMessages(conv.before))

\* ------------------------------------------------------------------------
\* The agent loop: multi_function_agent.run and function_calling.run
\* ------------------------------------------------------------------------

\* max_iterations is drawn from -1..MaxIterations
MaxIterations == 3

\* the copies of the tool-calling conversation:
\*   "agent_run"  multi_function_agent.run (the while loop)
\*   "fc_run"     function_calling.run (one round, then the final request)
AgentImpls == {"agent_run", "fc_run"}

\* One tool call of a response. name is in FUNCTION_MAP or not, arguments
\* is an argument text, raises says whether the tool function raises when
\* called with these arguments (a keyword it does not take, say).
AgentToolCall(name, arguments, raises) ==
    [id |-> <<0, 0>>, name |-> name, arguments |-> arguments, raises |-> raises]

AgentToolCalls ==
    {AgentToolCall("get_weather", <<"{", "}">>, FALSE),
     AgentToolCall("get_weather", <<"{", "k", ":", "1", "}">>, TRUE),
     AgentToolCall("no_such_function", <<"{", "}">>, FALSE),
     AgentToolCall("get_weather", <<"{", "k", ":">>, FALSE),
     AgentToolCall("no_such_function", <<"{", "k", ":">>, FALSE)}

\* name in FUNCTION_MAP
InFunctionMap(name) == name = "get_weather"

\* tool-call identifiers are unique within a run: request number, position
WithIds(tcs, request) ==
    [j \in 1..Len(tcs) |-> [tcs[j] EXCEPT !.id = <<request, j>>]]

\* What create_chat yields: kind is "tools" (tool_calls non-empty), "final"
\* (no tool calls) or "raises" (the request fails).
AgentResponse(kind, tcs) == [kind |-> kind, tool_calls |-> tcs]

AgentResponses ==
    {AgentResponse("final", <<>>), AgentResponse("raises", <<>>)}
    \cup {AgentResponse("tools", tcs) :
             tcs \in UNION {[1..n -> AgentToolCalls] : n \in 1..MaxCalls}}

\* messages.append({"role": "assistant", ..., "tool_calls": [...]})
AssistantMessage(tcs) ==
    [role |-> "assistant", content |-> "", tool_calls |-> tcs,
     tool_call_id |-> <<0, 0>>]

\* {"role": "tool", "tool_call_id": tool_call.id, "content": result}
ToolMessage(tc, result) ==
    [role |-> "tool", content |-> result, tool_calls |-> <<>>,
     tool_call_id |-> tc.id]

\* execute_function: the result of the function, or the error for a name
\* that is not in FUNCTION_MAP
execute_function(name) ==
    IF InFunctionMap(name) THEN "result" ELSE "Unknown function"

\* function_calling.run 297-305: the tool message that carries the parse
\* error
ParseErrorAnswer(msgs, tc) == Append(msgs, ToolMessage(tc, "Invalid JSON arguments"))

\* mutant of ToolAnswer: a call of an unknown function gets no tool message
ToolAnswerKnownOnly(msgs, tc) ==
    IF InFunctionMap(tc.name)
    THEN Append(msgs, ToolMessage(tc, execute_function(tc.name)))
    ELSE msgs

\* result = execute_function(...); messages.append({"role": "tool", ...})
ToolAnswer(msgs, tc) == Append(msgs, ToolMessage(tc, execute_function(tc.name)))

\* The for loop over the tool calls of one response. st holds messages and
\* whether an exception left the loop: json.loads raises in
\* multi_function_agent.run (line 332) and is answered in
\* function_calling.run (295-306); a tool function that raises leaves both.
RECURSIVE ExecuteToolCalls(_, _, _)
ExecuteToolCalls(im, st, tcs) ==
    IF st.raised \/ tcs = <<>> THEN st
    ELSE LET tc == Head(tcs)
             next == IF ParseFails(tc)
                     THEN IF im = "agent_run" THEN [st EXCEPT !.raised = TRUE]
                          ELSE [st EXCEPT !.messages = ParseErrorAnswer(@, tc)]
                     ELSE IF InFunctionMap(tc.name) /\ tc.raises
                     THEN [st EXCEPT !.raised = TRUE]
                     ELSE [st EXCEPT !.messages = ToolAnswer(@, tc)]
         IN ExecuteToolCalls(im, next, Tail(tcs))

\* the assistant message is appended, then the tool calls are executed
AfterToolCalls(im, msgs, tcs) ==
    ExecuteToolCalls(im, [messages |-> Append(msgs, AssistantMessage(tcs)),
                          raised |-> FALSE], tcs)

InitAgent ==
    /\ PollIdle
    /\ AccIdle
    /\ ToolIdle
    /\ EvalIdle
    /\ CopiesIdle
    /\ CacheIdle
    /\ ConvIdle
    /\ \/ \E mi \in -1..MaxIterations : agent = AgentStart("agent_run", mi)
       \/ agent = AgentStart("fc_run", 1)

\* return None after the except of run; how is "request_failed" when
\* create_chat raised and "raised" when handling the response did
AgentRaised(a, how) ==
    [a EXCEPT !.pc = "done", !.ended = how,
              !.ret = [kind |-> "None", iterations |-> 0]]

\* One pass of  while iteration < max_iterations  (multi_function_agent.py
\* 295-358): the request, then either the tool calls or the return.
AgentIteration(resp) ==
    /\ agent.impl = "agent_run"
    /\ agent.pc = "loop"
    /\ agent.iteration < agent.max_iterations
    /\ LET asked == [agent EXCEPT !.iteration = @ + 1, !.requests = @ + 1,
                                  !.sent = agent.messages,
                                  !.tools = @ /\ resp.kind # "final"]
           tcs == WithIds(resp.tool_calls, asked.requests)
           st == AfterToolCalls("agent_run", agent.messages, tcs)
       IN agent' =
            IF resp.kind = "raises" THEN AgentRaised(asked, "request_failed")
            ELSE IF resp.kind = "final"
            THEN [asked EXCEPT !.pc = "done", !.ended = "final",
                               !.ret = [kind |-> "dict",
                                        iterations |-> asked.iteration]]
            ELSE IF st.raised
            THEN AgentRaised([asked EXCEPT !.messages = st.messages], "raised")
            ELSE [asked EXCEPT !.messages = st.messages]
    /\ UNCHANGED <<pollVars, accVars, toolVars, evalVars, copies, cache, conv>>

\* the while test fails: "Max iterations reached", return None
AgentExhausted ==
    /\ agent.impl = "agent_run"
    /\ agent.pc = "loop"
    /\ ~(agent.iteration < agent.max_iterations)
    /\ agent' = [agent EXCEPT !.pc = "done", !.ended = "max_iterations",
                              !.ret = [kind |-> "None", iterations |-> 0]]
    /\ UNCHANGED <<pollVars, accVars, toolVars, evalVars, copies, cache, conv>>

\* function_calling.run (257-340): the first request, the tool calls, the
\* second request; second is whether the second request returns or raises
FcRun(resp, second) ==
    /\ agent.impl = "fc_run"
    /\ agent.pc = "loop"
    /\ LET asked == [agent EXCEPT !.requests = 1, !.sent = agent.messages,
                                  !.tools = resp.kind # "final"]
           tcs == WithIds(resp.tool_calls, 1)
           st == AfterToolCalls("fc_run", agent.messages, tcs)
           again == [asked EXCEPT !.messages = st.messages, !.requests = 2,
                                  !.sent = st.messages, !.tools = FALSE]
       IN agent' =
            IF resp.kind = "raises" THEN AgentRaised(asked, "request_failed")
            ELSE IF resp.kind = "final"
            THEN [asked EXCEPT !.pc = "done", !.ended = "final",
                               !.ret = [kind |-> "dict", iterations |-> 1]]
            ELSE IF st.raised
            THEN AgentRaised([asked EXCEPT !.messages = st.messages], "raised")
            ELSE IF second = "raises" THEN AgentRaised(again, "request_failed")
            ELSE [again EXCEPT !.pc = "done", !.ended = "final",
                               !.ret = [kind |-> "dict", iterations |-> 2]]
    /\ UNCHANGED <<pollVars, accVars, toolVars, evalVars, copies, cache, conv>>

AgentRequest == \E resp \in AgentResponses : AgentIteration(resp)

FcRequests == \E resp \in AgentResponses, second \in {"final", "raises"} :
                 FcRun(resp, second)

NextAgent == AgentRequest \/ AgentExhausted \/ FcRequests

SpecAgent == InitAgent /\ [][NextAgent]_vars

\* the number of passes of  while iteration < max_iterations
PassesAllowed(mi) == IF mi > 0 THEN mi ELSE 0

\* C22: the agent loop makes at most max_iterations model requests whatever
\* the model answers; when every response asks for tools the run ends after
\* exactly max_iterations requests and returns None; otherwise it returns
\* at the first response without tool calls with iterations equal to the
\* requests made, between 1 and max_iterations; with max_iterations <= 0 no
\* request is made.
C22_LoopBoundedByMaxIterations ==
    agent.impl = "agent_run" =>
        /\ agent.requests <= PassesAllowed(agent.max_iterations)
        /\ (agent.max_iterations <= 0 => agent.requests = 0)
        /\ (agent.pc = "done" /\ agent.tools /\ agent.ended # "request_failed" =>
               /\ agent.requests = PassesAllowed(agent.max_iterations)
               /\ agent.ret.kind = "None")
        /\ (agent.pc = "done" /\ ~agent.tools =>
               /\ agent.ret.kind = "dict"
               /\ agent.ret.iterations = agent.requests
               /\ 1 <= agent.ret.iterations
               /\ agent.ret.iterations <= agent.max_iterations)

\* the message list is rounds: an assistant message with tool calls, then
\* one tool message per tool call, in order, with the call's identifier
RECURSIVE IsRounds(_)
IsRounds(ms) ==
    \/ ms = <<>>
    \/ /\ ms[1].role = "assistant"
       /\ ms[1].tool_calls # <<>>
       /\ Len(ms) >= 1 + Len(ms[1].tool_calls)
       /\ \A j \in 1..Len(ms[1].tool_calls) :
             /\ ms[1 + j].role = "tool"
             /\ ms[1 + j].tool_call_id = ms[1].tool_calls[j].id
       /\ IsRounds(SubSeq(ms, 2 + Len(ms[1].tool_calls), Len(ms)))

\* C30: at every model request after the first, in the agent loop and in
\* function_calling.run, the messages sent are the user query followed by
\* one or more rounds, each an assistant message with tool_calls followed
\* by exactly one tool message per tool call, in order and with the
\* matching tool_call_id, also for unknown function names; no request
\* leaves a tool call unanswered.
C30_RequestsCarryCompleteRounds ==
    agent.requests >= 2 =>
        /\ Len(agent.sent) >= 3
        /\ agent.sent[1].role = "user"
        /\ IsRounds(Tail(agent.sent))

C30_Witness ==
    /\ agent.impl = "agent_run"
    /\ agent.requests = 3
    /\ Len(agent.sent) = 6
    /\ Len(agent.sent[2].tool_calls) = 2
    /\ agent.sent[2].tool_calls[2].name = "no_such_function"
    /\ agent.sent[4].content = "Unknown function"

\* ------------------------------------------------------------------------
\* The calculator tool and its callers
\* ------------------------------------------------------------------------

\* 1e200 ** 2: float.__pow__ raises OverflowError
HugeFloatSquared == BinOp("Pow", Node("Constant", "float", 0, <<>>), Num(2))

\* 2 + 1e200 ** 2
TwoPlusHugeFloatSquared == BinOp("Add", Num(2), HugeFloatSquared)

OverflowTrees == {HugeFloatSquared, TwoPlusHugeFloatSquared}

\* the expression of the tool call: as for SpecEval, and the expressions
\* whose evaluation overflows
InitCalc ==
    /\ eimpl \in EvalImpls
    /\ \/ expr \in {Unparsable} \cup ScenarioTrees \cup OverflowTrees
       \/ \E n \in 1..MaxNodes : \E i \in LeftSizes(n) : expr \in TreesSplit(n, i)
    /\ InModel(expr)
    /\ eout = NoOutcome
    /\ epc = "call"
    /\ PollIdle
    /\ AccIdle
    /\ ToolIdle
    /\ AuxIdle

\* What the caller makes of the evaluator's outcome. execute_function
\* passes the dict of calculate to json.dumps (function_calling.py 216-221);
\* demo_interleaved_thinking wraps safe_calculate in try / except ValueError
\* (thinking_mode.py 211-215) and has no other handler, so any other
\* exception leaves the demo.
CallerHandling(im, out) ==
    IF im = "calculate" THEN "handled"
    ELSE IF out.kind = "raise" /\ out.exc # "ValueError" THEN "escaped"
    ELSE "handled"

\* the caller calls the calculator tool with the expression and handles
\* what it gets
CallCalculator ==
    /\ epc = "call"
    /\ LET out == IF eimpl = "calculate" THEN calculate(expr)
                  ELSE safe_calculate(expr)
       IN /\ eout' = out
          /\ epc' = CallerHandling(eimpl, out)
    /\ UNCHANGED <<eimpl, expr>>
    /\ UNCHANGED <<pollVars, accVars, toolVars, auxVars>>

NextCalc == CallCalculator

SpecCalc == InitCalc /\ [][NextCalc]_vars

\* C21: for every expression string the calculator tool hands its caller a
\* result value or an error result, and no exception from the evaluator
\* escapes the caller's handling and ends the surrounding demo.
C21_EvaluatorFailureRecoverable ==
    epc \notin {"idle", "call"} =>
        /\ epc = "handled"
        /\ \/ eout.kind \in {"result", "error"}
           \/ eout.kind = "raise" /\ eout.exc = "ValueError"

====
